---- MODULE Spec2Model ----
(***************************************************************************)
(* A model of the kiro-2api gateway: the token lifecycle manager           *)
(* (app/libs/auth.py), the event-stream parser (app/libs/parsers.py), the  *)
(* request translator (app/libs/converters.py), the response emitters      *)
(* (app/libs/streaming.py) and the retrying HTTP dispatch                  *)
(* (app/libs/http_client.py), the reasoning-tag parser                     *)
(* (app/libs/thinking_parser.py) and the chat completions route            *)
(* (app/routes/chat.py).  Each component has its own specification         *)
(* (SpecAuth, SpecParser, ...); the variables of the other components stay *)
(* at their initial values under it.  The route's specification runs the   *)
(* HTTP dispatch and the emitters as the route calls them; SpecDedup       *)
(* applies deduplicate_tool_calls to its own result; SpecCreds is the      *)
(* manager's credentials file under _process_refresh_response; SpecCache   *)
(* is the model cache's background refresh task (app/libs/cache.py);       *)
(* SpecUsage is the emitters' usage computation; SpecAuthLive is SpecAuth  *)
(* under an event loop that runs every task that can run.                  *)
(***************************************************************************)
EXTENDS Integers, Sequences, FiniteSets, TLC

VARIABLES
    \* ---- KiroAuthManager (auth.py) ----
    accessToken,    \* self._access_token: NoToken or a token number
    refreshToken,   \* self._refresh_token: NoToken or a token number
    expiresAt,      \* self._expires_at: NoExpiry or a time in seconds
    now,            \* the wall clock, in seconds
    lockHolder,     \* the caller inside `async with self._lock`, or NoCaller
    pc,             \* each caller's position
    op,             \* each caller's operation: "get" or "force"
    attempt,        \* each caller's loop index in _execute_refresh_request
    ret,            \* the token each caller returned
    retLife,        \* expiresAt - now at the moment the caller returned
    retExpiresIn,   \* the expiresIn of the response the caller processed
    refreshed,      \* whether the caller ran _refresh_token_request
    enteredExpired, \* whether the token needed a refresh when the caller entered
    sent,           \* refresh HTTP requests sent so far
    refreshOps,     \* calls of _refresh_token_request so far
    issued,         \* tokens issued by the auth endpoint so far
    hist,           \* what has happened: failed refresh, short expiry, force, cancel,
                    \* and the latest refresh's request in flight or last response
    \* ---- KiroHttpClient.request_with_retry (http_client.py) ----
    rq,             \* one call of request_with_retry: its locals and its position
    \* ---- stream_kiro_to_openai / collect_stream_response (streaming.py) ----
    st,             \* one emitter run: its locals, its output and its position
    \* ---- build_kiro_payload (converters.py) ----
    cv,             \* one translation: the request, the payload built from it
    \* ---- AwsEventStreamParser (parsers.py) ----
    ps,             \* one parser fed one upstream byte sequence chunk by chunk
    \* ---- ThinkingParser (thinking_parser.py) ----
    tp,             \* one reasoning-tag parser fed one text chunk by chunk
    \* ---- verify_api_key / chat_completions (routes/chat.py) ----
    rt,             \* one chat completion request: its inputs, its position, the answer
    \* ---- deduplicate_tool_calls (parsers.py) ----
    dd,             \* a list of tool calls, deduplicated once and twice
    \* ---- KiroAuthManager._process_refresh_response (auth.py) ----
    cr,             \* one manager, its credentials file and the refresh response it processes
    \* ---- ModelInfoCache background refresh (cache.py) ----
    bg,             \* the refresh tasks created so far, self._refresh_task, the stop calls
    \* ---- _calculate_usage_tokens (streaming.py) ----
    us              \* one usage computation: its inputs and the block it returns

authVars == <<accessToken, refreshToken, expiresAt, now, lockHolder, pc, op,
              attempt, ret, retLife, retExpiresIn, refreshed, enteredExpired,
              sent, refreshOps, issued, hist>>

vars == <<authVars, rq, st, cv, ps, tp, rt, dd, cr, bg, us>>

\* What each component's actions leave alone: the other components.
notAuth == <<rq, st, cv, ps, tp, rt, dd, cr, bg, us>>

notHttp == <<authVars, st, cv, ps, tp, rt, dd, cr, bg, us>>

notStream == <<authVars, rq, cv, ps, tp, rt, dd, cr, bg, us>>

notConv == <<authVars, rq, st, ps, tp, rt, dd, cr, bg, us>>

notParser == <<authVars, rq, st, cv, tp, rt, dd, cr, bg, us>>

notThinking == <<authVars, rq, st, cv, ps, rt, dd, cr, bg, us>>

\* The route leaves alone what it does not call.
notRoute == <<authVars, cv, ps, tp, dd, cr, bg, us>>

notDedup == <<authVars, rq, st, cv, ps, tp, rt, cr, bg, us>>

notCreds == <<authVars, rq, st, cv, ps, tp, rt, dd, bg, us>>
\* everything but the model cache's background refresh
notCache == <<authVars, rq, st, cv, ps, tp, rt, dd, cr, us>>

notUsage == <<authVars, rq, st, cv, ps, tp, rt, dd, cr, bg>>

RECURSIVE Pow2(_)
Pow2(n) == IF n = 0 THEN 1 ELSE 2 * Pow2(n - 1)

(***************************************************************************)
(* Each component at rest: the value its variables keep under the other    *)
(* components' specifications.                                             *)
(***************************************************************************)

NCallers == 2

Callers == 1..NCallers

NoCaller == 0

\* No refresh request has been sent
NoRequest == [by |-> NoCaller, n |-> 0, prevStatus |-> -1, waited |-> 0, status |-> -1]

NoToken == 0

NoExpiry == -1

\* The manager at rest, under the other components' specifications.
AuthOff ==
    /\ accessToken = NoToken /\ refreshToken = NoToken /\ expiresAt = NoExpiry
    /\ now = 0 /\ lockHolder = NoCaller
    /\ pc = [c \in Callers |-> "off"]
    /\ op = [c \in Callers |-> "get"]
    /\ attempt = [c \in Callers |-> 0]
    /\ ret = [c \in Callers |-> NoToken]
    /\ retLife = [c \in Callers |-> 0]
    /\ retExpiresIn = [c \in Callers |-> 0]
    /\ refreshed = [c \in Callers |-> FALSE]
    /\ enteredExpired = [c \in Callers |-> FALSE]
    /\ sent = 0 /\ refreshOps = 0 /\ issued = 0
    /\ hist = [opFailed |-> FALSE, short |-> FALSE, force |-> FALSE, cancel |-> FALSE,
               last |-> NoRequest]

RqOff == [pc |-> "off", stream |-> FALSE, maxRetries |-> 0, firstTokenMaxRetries |-> 0,
          attempt |-> 0, sent |-> 0, kind |-> "none", result |-> 0,
          lastError |-> "none", sleeps |-> <<>>, forced |-> 0, token |-> 0,
          mgrToken |-> 0, open |-> FALSE, retryableOnly |-> TRUE, raised |-> "none",
          authFailed |-> FALSE, forceToken |-> 0]

HttpOff == rq = RqOff

StOff == [mode |-> "off", pc |-> "off", chunks |-> 0, pending |-> <<>>, parts |-> <<>>,
          tools |-> <<>>, tail |-> <<>>, metering |-> FALSE, ctxSeen |-> FALSE, firstChunk |-> TRUE,
          timeouts |-> 0, iterAlive |-> TRUE, out |-> <<>>, closed |-> FALSE,
          err |-> "none", finish_reason |-> "none", message_content |-> "unset"]

StreamOff == st = StOff

NoPayload == [history |-> <<>>, content |-> <<>>, toolResults |-> <<>>]

CvOff == [pc |-> "off", messages |-> <<>>, longTool |-> FALSE, payload |-> NoPayload]

ConvOff == cv = CvOff

\* A JSON value as Python holds it: k is its type, s the characters of a
\* string or the digits of a number, m the members of an object in order.
Value(k, s, m) == [k |-> k, s |-> s, m |-> m]

\* Python's None, also for JSON null
None == Value("null", <<>>, <<>>)

NoToolCall == [present |-> FALSE, id |-> None, name |-> None, arguments |-> <<>>]

\* AwsEventStreamParser.__init__
FreshParser == [buffer |-> <<>>, last_content |-> None, current_tool_call |-> NoToolCall,
                tool_calls |-> <<>>, minted |-> 0]

NoRun == [events |-> <<>>, result |-> <<>>]

PsOff == [pc |-> "off", run |-> "off", stream |-> <<>>, rest |-> <<>>, parser |-> FreshParser,
          events |-> <<>>, result |-> <<>>, whole |-> NoRun]

ParserOff == ps = PsOff

TpOff == [pc |-> "off", input |-> <<>>, pos |-> 0, parser |-> <<>>, regular |-> <<>>,
          thinking |-> <<>>, closedFrom |-> 0, closedAt |-> 0]

ThinkingOff == tp = TpOff

\* A KiroAuthManager as the route sees it: its credentials and whether it was
\* constructed with a credentials file.
Manager(access, refresh, expires, arn, credsFile) ==
    [accessToken |-> access, refreshToken |-> refresh, expiresAt |-> expires,
     profileArn |-> arn, credsFile |-> credsFile]

NoManager == Manager(NoToken, <<>>, NoExpiry, <<>>, FALSE)

RtOff == [pc |-> "off", key |-> <<>>, header |-> <<>>, messages |-> <<>>, model |-> "none",
          stream |-> FALSE, manager |-> "none", shared |-> NoManager, own |-> NoManager,
          fileWritten |-> FALSE, status |-> 0, cause |-> "none", called |-> FALSE,
          exhausted |-> FALSE, refreshFailed |-> FALSE]

RouteOff == rt = RtOff

DdOff == [pc |-> "off", tool_calls |-> <<>>, once |-> <<>>, twice |-> <<>>]

DedupOff == dd = DdOff

\* No credentials file at the path
NoFile == [exists |-> FALSE, accessToken |-> "absent", refreshToken |-> "absent",
           expiresAt |-> NoExpiry, profileArn |-> "absent", region |-> "absent"]

\* No refresh response
NoData == [accessToken |-> "none", refreshToken |-> "none", expiresIn |-> -1,
           profileArn |-> "none"]

CrOff == [pc |-> "off", m |-> [NoManager EXCEPT !.accessToken = "none", !.refreshToken = "none",
                                               !.profileArn = "none"],
          file |-> NoFile, data |-> NoData, now |-> 0, n |-> 0, raised |-> "none"]

CredsOff == cr = CrOff

BgOff == [pc |-> "off", tasks |-> <<>>, refresh_task |-> 0, stop |-> <<>>, on |-> <<>>,
          calls |-> 0, last |-> "none"]
CacheOff == bg = BgOff

NoUsage == [prompt_tokens |-> 0, completion_tokens |-> 0, total_tokens |-> 0,
            total_source |-> "none"]
UsOff == [pc |-> "off", completion_tokens |-> 0,
          context_usage_percentage |-> [seen |-> FALSE, value |-> 0],
          message_tokens |-> 0, tools_tokens |-> 0, usage |-> NoUsage]
UsageOff == us = UsOff

(***************************************************************************)
(*                     KiroAuthManager  (auth.py)                          *)
(***************************************************************************)

\* settings.token_refresh_threshold
TokenRefreshThreshold == 600

\* _process_refresh_response: now + expires_in - 60
SafetyShave == 60

\* data.get("expiresIn", 3600)
DefaultExpiresIn == 3600

\* _execute_refresh_request: max_retries = 3
RefreshMaxRetries == 3

\* _execute_refresh_request: base_delay = 1.0
RefreshBaseDelay == 1

\* httpx.AsyncClient(timeout=30)
RefreshHttpTimeout == 30

\* The expiresIn values a refresh response carries in the model: the two sides
\* of threshold + shave, and the default.
ExpiresInValues == {TokenRefreshThreshold + SafetyShave,
                    TokenRefreshThreshold + SafetyShave + 1, DefaultExpiresIn}

\* How long one refresh HTTP exchange takes: the model takes the longest the
\* client's timeout allows.
HttpDurations == {RefreshHttpTimeout}

RetryableRefreshStatusAll(s) == s # 200

\* _execute_refresh_request: the statuses that are retried with backoff.
RetryableRefreshStatus(s) == s \in {429, 500, 502, 503, 504}

\* The statuses the auth endpoint answers with in the model; 0 stands for a
\* connect error or timeout (httpx.ConnectError, httpx.TimeoutException).
RefreshStatuses == {0, 200, 401, 429, 503}

\* delay = base_delay * (2 ** attempt)
RefreshDelay(k) == RefreshBaseDelay * Pow2(k)

\* `await client.post(...)` in iteration `attempt` of caller c's refresh: after
\* the first, a request follows the response to the one before it, `waited`
\* seconds later.
Posted(r, c, k, waited) ==
    [by |-> c, n |-> k + 1, prevStatus |-> IF k = 0 THEN -1 ELSE r.status,
     waited |-> waited, status |-> -1]

\* The response to the request in flight, or the connect error or timeout
\* (status 0) that ends it; what came before the request is forgotten.
Answered(r, s) == [by |-> r.by, n |-> r.n, prevStatus |-> -1, waited |-> 0, status |-> s]

IsTokenExpiringSoonStrict(exp, t) ==
    IF exp = NoExpiry THEN TRUE ELSE exp < t + TokenRefreshThreshold

\* is_token_expiring_soon: no expiry known, or expires_at <= now + threshold
IsTokenExpiringSoon(exp, t) ==
    IF exp = NoExpiry THEN TRUE ELSE exp <= t + TokenRefreshThreshold

NeedsRefreshAlways(tok, exp, t) == TRUE

\* get_access_token: `if not self._access_token or self.is_token_expiring_soon()`
NeedsRefresh(tok, exp, t) == tok = NoToken \/ IsTokenExpiringSoon(exp, t)

LockIsFreeBroken == TRUE

\* `async with self._lock`: the lock can be taken only when nobody holds it
LockIsFree == lockHolder = NoCaller

Terminated(c) == pc[c] \in {"done", "failed", "cancelled"}

AuthInit ==
    /\ accessToken \in {NoToken, 1}
    /\ refreshToken \in {NoToken, 1}
    /\ expiresAt \in {NoExpiry, TokenRefreshThreshold, DefaultExpiresIn}
    /\ now = 0
    /\ lockHolder = NoCaller
    /\ pc = [c \in Callers |-> "idle"]
    /\ op = [c \in Callers |-> "get"]
    /\ attempt = [c \in Callers |-> 0]
    /\ ret = [c \in Callers |-> NoToken]
    /\ retLife = [c \in Callers |-> 0]
    /\ retExpiresIn = [c \in Callers |-> 0]
    /\ refreshed = [c \in Callers |-> FALSE]
    /\ enteredExpired = [c \in Callers |-> FALSE]
    /\ sent = 0
    /\ refreshOps = 0
    /\ issued = 1
    /\ hist = [opFailed |-> FALSE, short |-> FALSE, force |-> FALSE, cancel |-> FALSE,
               last |-> NoRequest]

\* A request handler calls get_access_token() or force_refresh() and reaches
\* `async with self._lock`.
Call(c, o) ==
    /\ pc[c] = "idle"
    /\ pc' = [pc EXCEPT ![c] = "wait"]
    /\ op' = [op EXCEPT ![c] = o]
    /\ enteredExpired' = [enteredExpired EXCEPT ![c] = NeedsRefresh(accessToken, expiresAt, now)]
    /\ hist' = [hist EXCEPT !.force = @ \/ o = "force"]
    /\ UNCHANGED <<accessToken, refreshToken, expiresAt, now, lockHolder, attempt,
                   ret, retLife, retExpiresIn, refreshed, sent, refreshOps, issued>>
    /\ UNCHANGED notAuth

\* get_access_token with a token that is not expiring: the lock is taken and
\* released with no I/O, the current token is returned.
GetValid(c) ==
    /\ pc[c] = "wait" /\ op[c] = "get"
    /\ LockIsFree
    /\ ~NeedsRefresh(accessToken, expiresAt, now)
    /\ pc' = [pc EXCEPT ![c] = "done"]
    /\ ret' = [ret EXCEPT ![c] = accessToken]
    /\ retLife' = [retLife EXCEPT ![c] = expiresAt - now]
    /\ UNCHANGED <<accessToken, refreshToken, expiresAt, now, lockHolder, op, attempt,
                   retExpiresIn, refreshed, enteredExpired, sent, refreshOps, issued, hist>>
    /\ UNCHANGED notAuth

\* The lock is taken and _refresh_token_request starts: by get_access_token when
\* the token is absent or expiring, by force_refresh always.  With a refresh
\* token the first request of _execute_refresh_request is sent.
BeginRefresh(c) ==
    /\ pc[c] = "wait"
    /\ LockIsFree
    /\ op[c] = "force" \/ NeedsRefresh(accessToken, expiresAt, now)
    /\ refreshToken # NoToken
    /\ lockHolder' = c
    /\ pc' = [pc EXCEPT ![c] = "http"]
    /\ attempt' = [attempt EXCEPT ![c] = 0]
    /\ refreshed' = [refreshed EXCEPT ![c] = TRUE]
    /\ sent' = sent + 1
    /\ refreshOps' = refreshOps + 1
    /\ hist' = [hist EXCEPT !.last = Posted(@, c, 0, 0)]
    /\ UNCHANGED <<accessToken, refreshToken, expiresAt, now, op, ret, retLife,
                   retExpiresIn, enteredExpired, issued>>
    /\ UNCHANGED notAuth

\* _refresh_token_social / _refresh_token_idc: `if not self._refresh_token:
\* raise ValueError`; the exception leaves `async with` and frees the lock.
RefreshNoToken(c) ==
    /\ pc[c] = "wait"
    /\ LockIsFree
    /\ op[c] = "force" \/ NeedsRefresh(accessToken, expiresAt, now)
    /\ refreshToken = NoToken
    /\ pc' = [pc EXCEPT ![c] = "failed"]
    /\ refreshed' = [refreshed EXCEPT ![c] = TRUE]
    /\ refreshOps' = refreshOps + 1
    /\ hist' = [hist EXCEPT !.opFailed = TRUE]
    /\ UNCHANGED <<accessToken, refreshToken, expiresAt, now, lockHolder, op, attempt,
                   ret, retLife, retExpiresIn, enteredExpired, sent, issued>>
    /\ UNCHANGED notAuth

\* The response is 200 and carries an accessToken: _process_refresh_response
\* stores the token and the expiry, the caller returns it and frees the lock.
RefreshOk(c, d, e) ==
    /\ pc[c] = "http"
    /\ now' = now + d
    /\ accessToken' = issued + 1
    /\ issued' = issued + 1
    /\ expiresAt' = now' + e - SafetyShave
    /\ lockHolder' = NoCaller
    /\ pc' = [pc EXCEPT ![c] = "done"]
    /\ ret' = [ret EXCEPT ![c] = accessToken']
    /\ retLife' = [retLife EXCEPT ![c] = expiresAt' - now']
    /\ retExpiresIn' = [retExpiresIn EXCEPT ![c] = e]
    /\ hist' = [hist EXCEPT !.short = @ \/ e <= TokenRefreshThreshold + SafetyShave,
                            !.last = Answered(@, 200)]
    /\ UNCHANGED <<refreshToken, op, attempt, refreshed, enteredExpired, sent, refreshOps>>
    /\ UNCHANGED notAuth

\* The response is 200 without accessToken (`raise ValueError`), or a status
\* that is not retried (`raise`): the refresh fails and the lock is freed.
RefreshFatal(c, d, s) ==
    /\ pc[c] = "http"
    /\ s # 0 /\ ~RetryableRefreshStatus(s)
    /\ now' = now + d
    /\ lockHolder' = NoCaller
    /\ pc' = [pc EXCEPT ![c] = "failed"]
    /\ hist' = [hist EXCEPT !.opFailed = TRUE, !.last = Answered(@, s)]
    /\ UNCHANGED <<accessToken, refreshToken, expiresAt, op, attempt, ret, retLife,
                   retExpiresIn, refreshed, enteredExpired, sent, refreshOps, issued>>
    /\ UNCHANGED notAuth

\* A retryable status, a connect error or a timeout: asyncio.sleep(delay).
RefreshRetryable(c, d, s) ==
    /\ pc[c] = "http"
    /\ s = 0 \/ RetryableRefreshStatus(s)
    /\ now' = now + d
    /\ pc' = [pc EXCEPT ![c] = "sleep"]
    /\ hist' = [hist EXCEPT !.last = Answered(@, s)]
    /\ UNCHANGED <<accessToken, refreshToken, expiresAt, lockHolder, op, attempt, ret,
                   retLife, retExpiresIn, refreshed, enteredExpired, sent, refreshOps,
                   issued>>
    /\ UNCHANGED notAuth

\* The backoff sleep ends: the next attempt is sent, or, after the last attempt,
\* `raise last_error`.
RefreshWake(c) ==
    /\ pc[c] = "sleep"
    /\ now' = now + RefreshDelay(attempt[c])
    /\ IF attempt[c] + 1 < RefreshMaxRetries
       THEN /\ attempt' = [attempt EXCEPT ![c] = @ + 1]
            /\ pc' = [pc EXCEPT ![c] = "http"]
            /\ sent' = sent + 1
            /\ hist' = [hist EXCEPT !.last = Posted(@, c, attempt'[c], now' - now)]
            /\ UNCHANGED lockHolder
       ELSE /\ pc' = [pc EXCEPT ![c] = "failed"]
            /\ lockHolder' = NoCaller
            /\ hist' = [hist EXCEPT !.opFailed = TRUE]
            /\ UNCHANGED <<attempt, sent>>
    /\ UNCHANGED <<accessToken, refreshToken, expiresAt, op, ret, retLife, retExpiresIn,
                   refreshed, enteredExpired, refreshOps, issued>>
    /\ UNCHANGED notAuth

\* A cancellation that leaves the lock with the cancelled caller
CancelCallerKeepsLock(c) ==
    /\ pc[c] \in {"wait", "http", "sleep"}
    /\ pc' = [pc EXCEPT ![c] = "cancelled"]
    /\ hist' = [hist EXCEPT !.cancel = TRUE]
    /\ UNCHANGED <<accessToken, refreshToken, expiresAt, now, lockHolder, op, attempt, ret,
                   retLife, retExpiresIn, refreshed, enteredExpired, sent, refreshOps, issued>>
    /\ UNCHANGED notAuth

\* The calling task is cancelled while it waits for the lock, for the HTTP
\* response or in the backoff sleep; `async with` frees a held lock.
CancelCaller(c) ==
    /\ pc[c] \in {"wait", "http", "sleep"}
    /\ pc' = [pc EXCEPT ![c] = "cancelled"]
    /\ lockHolder' = IF lockHolder = c THEN NoCaller ELSE lockHolder
    /\ hist' = [hist EXCEPT !.cancel = TRUE]
    /\ UNCHANGED <<accessToken, refreshToken, expiresAt, now, op, attempt, ret, retLife,
                   retExpiresIn, refreshed, enteredExpired, sent, refreshOps, issued>>
    /\ UNCHANGED notAuth

AuthNext ==
    \E c \in Callers :
        \/ \E o \in {"get", "force"} : Call(c, o)
        \/ GetValid(c)
        \/ BeginRefresh(c)
        \/ RefreshNoToken(c)
        \/ \E d \in HttpDurations, e \in ExpiresInValues : RefreshOk(c, d, e)
        \/ \E d \in HttpDurations, s \in RefreshStatuses : RefreshFatal(c, d, s)
        \/ \E d \in HttpDurations, s \in RefreshStatuses : RefreshRetryable(c, d, s)
        \/ RefreshWake(c)
        \/ CancelCaller(c)

InitAuth == AuthInit /\ HttpOff /\ StreamOff /\ ConvOff /\ ParserOff /\ ThinkingOff /\ RouteOff /\ DedupOff /\ CredsOff /\ CacheOff /\ UsageOff

SpecAuth == InitAuth /\ [][AuthNext]_vars

InRefresh(c) == pc[c] \in {"http", "sleep"}

AllSettled == \A c \in Callers : pc[c] = "idle" \/ Terminated(c)

(* C1 (original): get_access_token calls that enter while the token is absent
   or expiring cause exactly one refresh in total, and every such caller
   returns the token of that refresh. *)
C1_OneRefreshAlways ==
    (/\ ~hist.force /\ ~hist.cancel
     /\ AllSettled
     /\ \E c \in Callers : Terminated(c) /\ enteredExpired[c])
    => /\ refreshOps = 1
       /\ \A c \in Callers :
             (Terminated(c) /\ enteredExpired[c]) => (pc[c] = "done" /\ ret[c] = issued)

(* C1 (amended): when no refresh fails and no refresh response carries an
   expiresIn of threshold + 60 or less, the get_access_token calls that enter
   while the token is absent or expiring cause exactly one refresh (at most
   RefreshMaxRetries HTTP requests), and every such caller returns its token. *)
C1_SingleFlight ==
    (~hist.force /\ ~hist.cancel /\ ~hist.opFailed /\ ~hist.short)
    => /\ refreshOps <= 1
       /\ sent <= RefreshMaxRetries
       /\ \A c \in Callers :
             (pc[c] = "done" /\ enteredExpired[c])
             => (refreshOps = 1 /\ ret[c] = issued /\ ret[c] = accessToken)

\* Two callers entered while the token needed a refresh, both returned, one refresh ran.
C1_Witness ==
    /\ ~hist.force /\ ~hist.cancel /\ ~hist.opFailed /\ ~hist.short
    /\ \E c, d \in Callers :
          /\ c # d
          /\ pc[c] = "done" /\ pc[d] = "done"
          /\ enteredExpired[c] /\ enteredExpired[d]
          /\ refreshed[c] /\ ~refreshed[d]
    /\ refreshOps = 1

(* C2 (original): every token returned by get_access_token expires more than
   token_refresh_threshold seconds after the moment it is returned. *)
C2_AlwaysBeyondThreshold ==
    \A c \in Callers :
        (pc[c] = "done" /\ op[c] = "get") => retLife[c] > TokenRefreshThreshold

(* C2 (amended): a token that get_access_token returns without refreshing
   expires more than token_refresh_threshold seconds after the return; a token
   it returns after a refresh expires exactly expiresIn - 60 seconds after the
   return, which is more than the threshold only when expiresIn > threshold + 60. *)
C2_ExpiryOfReturnedToken ==
    \A c \in Callers :
        (pc[c] = "done" /\ op[c] = "get")
        => IF refreshed[c]
           THEN /\ retLife[c] = retExpiresIn[c] - SafetyShave
                /\ (retExpiresIn[c] > TokenRefreshThreshold + SafetyShave
                      => retLife[c] > TokenRefreshThreshold)
           ELSE retLife[c] > TokenRefreshThreshold

\* One caller returned a stored token, another returned a refreshed one.
C2_Witness ==
    \E c, d \in Callers :
        /\ pc[c] = "done" /\ op[c] = "get" /\ ~refreshed[c]
        /\ pc[d] = "done" /\ op[d] = "get" /\ refreshed[d]
        /\ retExpiresIn[d] = DefaultExpiresIn

(* C3: at most one refresh (the HTTP exchange with its backoff sleeps and the
   update of the token fields) is in progress at any time, and it is the lock
   holder's, whatever get_access_token and force_refresh callers interleave. *)
C3_OneRefreshAtATime ==
    /\ Cardinality({c \in Callers : InRefresh(c)}) <= 1
    /\ \A c \in Callers : InRefresh(c) <=> lockHolder = c

\* A force_refresh is in its HTTP exchange while a get_access_token that needs
\* a refresh waits for the lock.
C3_Witness ==
    \E c, d \in Callers :
        /\ pc[c] = "http" /\ op[c] = "force"
        /\ pc[d] = "wait" /\ op[d] = "get"
        /\ NeedsRefresh(accessToken, expiresAt, now)

(* C21: one token refresh sends at most 3 HTTP requests; a request after the
   first, while it is in flight, follows a response with status 429, 500, 502, 503 or 504 or a
   connect/timeout error, and is sent base_delay * 2^attempt after it, where
   attempt is the 0-based index of the request that failed; any other status
   that is not 2xx is the refresh's last response and the refresh has failed. *)
C21_RefreshRequests ==
    /\ hist.last.n <= 3
    /\ (hist.last.n > 1 /\ hist.last.status = -1) =>
          /\ hist.last.prevStatus \in {0, 429, 500, 502, 503, 504}
          /\ hist.last.waited = 1 * Pow2(hist.last.n - 2)
    /\ hist.last.status \notin {-1, 0, 200, 429, 500, 502, 503, 504} =>
          pc[hist.last.by] = "failed"

\* A refresh whose second request met a connect error or timeout has sent its
\* third request 2 s after it.
C21_Witness ==
    /\ hist.last.n = 3
    /\ hist.last.prevStatus = 0
    /\ hist.last.waited = 2
    /\ hist.last.status = -1
    /\ pc[hist.last.by] = "http"

\* What the event loop does for caller c when nothing cancels it: the lock is
\* handed over when it is free, the HTTP exchange ends with a response, an
\* error or the client's timeout, and the backoff sleep ends.
Proceed(c) ==
    \/ GetValid(c)
    \/ BeginRefresh(c)
    \/ RefreshNoToken(c)
    \/ \E d \in HttpDurations, e \in ExpiresInValues : RefreshOk(c, d, e)
    \/ \E d \in HttpDurations, s \in RefreshStatuses : RefreshFatal(c, d, s)
    \/ \E d \in HttpDurations, s \in RefreshStatuses : RefreshRetryable(c, d, s)
    \/ RefreshWake(c)

\* The manager with an event loop that runs every task that can run; calls
\* and cancellations happen or not.
SpecAuthLive == SpecAuth /\ \A c \in Callers : WF_vars(Proceed(c))

(* C35: the lock is held only by a caller inside its refresh, so a refresh
   that failed or whose caller was cancelled, in the HTTP exchange or in the
   backoff sleep, has released it; a caller waiting for the lock always gets
   past it, and when it does with a token that is absent or expiring, or in
   force_refresh, it starts its own refresh. *)
C35_LockReleased ==
    /\ [](\A c \in Callers : lockHolder = c => InRefresh(c))
    /\ [][\A c \in Callers :
            (/\ pc[c] = "wait" /\ pc'[c] \notin {"wait", "cancelled"}
             /\ op[c] = "force" \/ NeedsRefresh(accessToken, expiresAt, now))
            => /\ refreshOps' = refreshOps + 1
               /\ refreshed'[c]
               /\ pc'[c] \in {"http", "failed"}]_vars
    /\ \A c \in Callers : (pc[c] = "wait") ~> (pc[c] # "wait")

\* A caller was cancelled in the backoff sleep after a 503; the lock is free
\* and the other caller, which was waiting, has sent its own request.
C35_Witness ==
    \E c, d \in Callers :
        /\ pc[c] = "cancelled" /\ refreshed[c] /\ attempt[c] = 1
        /\ pc[d] = "http" /\ lockHolder = d /\ refreshed[d]
        /\ refreshOps = 2

(***************************************************************************)
(*            KiroHttpClient.request_with_retry  (http_client.py)          *)
(***************************************************************************)

\* The largest retry budget (settings.max_retries, settings.first_token_max_retries)
\* the model configures.
MaxBudget == 3

\* settings.base_retry_delay
BaseRetryDelay == 1

\* The statuses the upstream answers with in the model.
UpstreamStatuses == {200, 400, 403, 429, 500, 503}

\* What awaiting the auth manager can raise into request_with_retry: an error
\* that propagates (ValueError, httpx.HTTPStatusError), or the last transport
\* error of an exhausted refresh (httpx.TimeoutException, httpx.ConnectError).
AuthErrors == {"fatal", "timeout", "request"}

\* How a step of an attempt ended: the status of the upstream response, or the
\* exception raised (status 0), by the request or, when auth is TRUE, by the
\* auth manager (get_access_token, or force_refresh after a 403).
Outcome(status, error, auth) == [status |-> status, error |-> error, auth |-> auth]

\* A retryable outcome: 403, 429, 5xx, a timeout or a transport error.
Retryable(o) ==
    \/ o.status \in {403, 429} \/ (500 <= o.status /\ o.status < 600)
    \/ o.error \in {"timeout", "request"}

\* The record of the call so far: whether every outcome was a retryable one,
\* the exception of the last step that raised one, and whether the auth
\* manager has raised.
Noted(r, o) ==
    [r EXCEPT !.retryableOnly = @ /\ Retryable(o),
              !.raised = IF o.error # "none" THEN o.error ELSE @,
              !.authFailed = @ \/ o.auth]

BudgetSwapped(r) == IF r.stream THEN r.maxRetries ELSE r.firstTokenMaxRetries

\* `max_retries = settings.first_token_max_retries` when stream, else
\* `settings.max_retries`
Budget(r) == IF r.stream THEN r.firstTokenMaxRetries ELSE r.maxRetries

LoopContinuesOffByOne(r) == r.attempt <= Budget(r)

\* `for attempt in range(max_retries)`
LoopContinues(r) == r.attempt < Budget(r)

\* delay = settings.base_retry_delay * (2 ** attempt)
RetryDelay(k) == BaseRetryDelay * Pow2(k)

HttpInit ==
    \E s \in BOOLEAN, m \in 0..MaxBudget, f \in 0..MaxBudget :
        rq = [RqOff EXCEPT !.pc = "loop", !.stream = s, !.maxRetries = m,
                           !.firstTokenMaxRetries = f, !.mgrToken = 1]

\* An httpx.TimeoutException or httpx.RequestError caught in the loop body:
\* last_error is set; a timeout with stream=True goes on to the next attempt
\* at once, everything else sleeps first.
CaughtForgetsError(r, e) ==
    IF e = "timeout" /\ r.stream
    THEN [r EXCEPT !.pc = "loop", !.attempt = @ + 1, !.open = FALSE]
    ELSE [r EXCEPT !.pc = "sleep", !.open = FALSE,
                   !.sleeps = Append(@, RetryDelay(r.attempt))]

Caught(r, e) ==
    IF e = "timeout" /\ r.stream
    THEN [r EXCEPT !.pc = "loop", !.attempt = @ + 1, !.lastError = e, !.open = FALSE]
    ELSE [r EXCEPT !.pc = "sleep", !.lastError = e, !.open = FALSE,
                   !.sleeps = Append(@, RetryDelay(r.attempt))]

\* An exception of the auth manager that no except clause catches.
Propagated(r) == [r EXCEPT !.pc = "raised", !.kind = "auth_error", !.open = FALSE]

\* The loop has run max_retries times: HTTPException 504 (stream) or 502.
HttpExhausted ==
    /\ rq.pc = "loop"
    /\ ~LoopContinues(rq)
    /\ rq' = [rq EXCEPT !.pc = "raised", !.kind = "http_exception",
                        !.result = IF rq.stream THEN 504 ELSE 502]
    /\ UNCHANGED notHttp

\* The next iteration starts: `await self.auth_manager.get_access_token()`.
HttpAskToken ==
    /\ rq.pc = "loop"
    /\ LoopContinues(rq)
    /\ rq' = [rq EXCEPT !.pc = "token"]
    /\ UNCHANGED notHttp

\* get_access_token returns (the stored token, or a refreshed one): the request
\* is built with it and sent.
HttpSend(renewed) ==
    /\ rq.pc = "token"
    /\ LET t == IF renewed THEN rq.mgrToken + 1 ELSE rq.mgrToken
       IN rq' = [rq EXCEPT !.pc = "inflight", !.mgrToken = t, !.token = t,
                           !.sent = @ + 1, !.forceToken = 0]
    /\ UNCHANGED notHttp

\* get_access_token raises.
HttpTokenRaises(e) ==
    /\ rq.pc = "token"
    /\ rq' = Noted(IF e = "fatal" THEN Propagated(rq) ELSE Caught(rq, e),
                   Outcome(0, e, TRUE))
    /\ UNCHANGED notHttp

\* The upstream answers.
HttpResponse(s) ==
    /\ rq.pc = "inflight"
    /\ rq' = Noted(IF s = 200 THEN [rq EXCEPT !.pc = "returned", !.kind = "response",
                                         !.result = s, !.open = TRUE]
               ELSE IF s = 403 THEN [rq EXCEPT !.pc = "forcing", !.open = FALSE]
               ELSE IF s = 429 \/ (500 <= s /\ s < 600)
                    THEN [rq EXCEPT !.pc = "sleep", !.open = FALSE,
                                    !.sleeps = Append(@, RetryDelay(rq.attempt))]
               ELSE [rq EXCEPT !.pc = "returned", !.kind = "response",
                               !.result = s, !.open = TRUE],
                   Outcome(s, "none", FALSE))
    /\ UNCHANGED notHttp

\* The request times out or fails in transport.
HttpTransportError(e) ==
    /\ rq.pc = "inflight"
    /\ e # "fatal"
    /\ rq' = Noted(Caught(rq, e), Outcome(0, e, FALSE))
    /\ UNCHANGED notHttp

HttpForceOkThenSleeps ==
    /\ rq.pc = "forcing"
    /\ rq' = [rq EXCEPT !.pc = "sleep", !.forced = @ + 1,
                        !.mgrToken = @ + 1, !.forceToken = rq.mgrToken + 1,
                        !.sleeps = Append(@, RetryDelay(rq.attempt))]
    /\ UNCHANGED notHttp

\* After a 403: `await self.auth_manager.force_refresh()` returns, `continue`.
\* forceToken is the token that refresh produced, until the next request is sent.
HttpForceOk ==
    /\ rq.pc = "forcing"
    /\ rq' = [rq EXCEPT !.pc = "loop", !.attempt = @ + 1, !.forced = @ + 1,
                        !.mgrToken = @ + 1, !.forceToken = rq.mgrToken + 1]
    /\ UNCHANGED notHttp

\* After a 403: force_refresh raises.
HttpForceRaises(e) ==
    /\ rq.pc = "forcing"
    /\ rq' = Noted([(IF e = "fatal" THEN Propagated(rq) ELSE Caught(rq, e))
                       EXCEPT !.forced = @ + 1],
                   Outcome(0, e, TRUE))
    /\ UNCHANGED notHttp

\* asyncio.sleep(delay) ends: the next iteration.
HttpWake ==
    /\ rq.pc = "sleep"
    /\ rq' = [rq EXCEPT !.pc = "loop", !.attempt = @ + 1]
    /\ UNCHANGED notHttp

HttpNext ==
    \/ HttpExhausted
    \/ HttpAskToken
    \/ \E renewed \in BOOLEAN : HttpSend(renewed)
    \/ \E e \in AuthErrors : HttpTokenRaises(e)
    \/ \E s \in UpstreamStatuses : HttpResponse(s)
    \/ \E e \in AuthErrors : HttpTransportError(e)
    \/ HttpForceOk
    \/ \E e \in AuthErrors : HttpForceRaises(e)
    \/ HttpWake

\* Every await of request_with_retry ends: the event loop runs a ready task,
\* and each request, refresh and sleep is bounded by a timeout.
InitHttp == HttpInit /\ AuthOff /\ StreamOff /\ ConvOff /\ ParserOff /\ ThinkingOff /\ RouteOff /\ DedupOff /\ CredsOff /\ CacheOff /\ UsageOff

SpecHttp == InitHttp /\ [][HttpNext]_vars /\ WF_vars(HttpNext)

HttpEnded == rq.pc \in {"returned", "raised"}

(* C10: request_with_retry always terminates, and it sends at most
   first_token_max_retries upstream requests when stream=true and at most
   max_retries when stream=false, whatever the upstream outcomes are. *)
C10_BoundedRetries ==
    /\ [](rq.sent <= (IF rq.stream THEN rq.firstTokenMaxRetries ELSE rq.maxRetries))
    /\ <>HttpEnded

\* The budget is used up by a mix of outcomes: a 403 with its forced refresh,
\* and backoff sleeps; the two budgets differ.
C10_Witness ==
    /\ rq.pc = "raised" /\ rq.kind = "http_exception"
    /\ rq.stream /\ rq.firstTokenMaxRetries = MaxBudget /\ rq.maxRetries < MaxBudget
    /\ rq.sent = MaxBudget
    /\ rq.forced >= 1 /\ Len(rq.sleeps) >= 1

(* C11: when request_with_retry has ended and every attempt ended in a
   retryable outcome, it has raised an HTTPException, with status 504 when
   stream=true and with status 502 and the last exception caught (last_error)
   when stream=false; it has not returned a response. *)
C11_ExhaustionRaises ==
    (HttpEnded /\ rq.retryableOnly)
    => /\ rq.pc = "raised" /\ rq.kind = "http_exception"
       /\ rq.result = (IF rq.stream THEN 504 ELSE 502)
       /\ rq.lastError = rq.raised

\* A non-streaming request whose attempts end in a timeout, a 403 and a 500:
\* the 502 carries the timeout.
C11_Witness ==
    /\ rq.pc = "raised" /\ ~rq.stream /\ rq.result = 502 /\ rq.retryableOnly
    /\ rq.sent = 3 /\ rq.forced = 1
    /\ rq.sleeps = <<RetryDelay(0), RetryDelay(2)>>
    /\ rq.lastError = "timeout"

(* C23 (original): each 403 response triggers exactly one force_refresh and
   no backoff sleep, and the next attempt, if one remains in the budget, is
   sent with the access token produced by that refresh. *)
C23_ForceRefreshNoSleep ==
    [][/\ rq.pc = "forcing" =>
            /\ rq'.forced = rq.forced + 1
            /\ rq'.sleeps = rq.sleeps /\ rq'.pc # "sleep"
       /\ (rq.pc = "token" /\ rq'.pc = "inflight" /\ rq.forceToken # 0) =>
            rq'.token = rq.forceToken]_vars

(* C23 (amended): each 403 response triggers exactly one force_refresh.  When
   it returns, the loop goes on to the next attempt with no backoff sleep, and
   that attempt, if one remains in the budget, is sent with the token
   get_access_token returns: the token of that refresh, or a newer one when
   get_access_token refreshed again.  When force_refresh raises, no token is
   produced: a timeout with stream=true goes on without a sleep, another
   timeout or transport error sleeps base_retry_delay * 2^attempt first, and
   any other exception ends the call. *)
C23_ForceRefreshThenRetry ==
    [][/\ rq.pc = "forcing" =>
            /\ rq'.forced = rq.forced + 1
            /\ rq'.forceToken # 0 =>
                  /\ rq'.pc = "loop" /\ rq'.sleeps = rq.sleeps
                  /\ rq'.attempt = rq.attempt + 1
                  /\ rq'.forceToken = rq'.mgrToken
            /\ rq'.forceToken = 0 =>
                  /\ rq'.authFailed /\ rq'.mgrToken = rq.mgrToken
                  /\ \/ rq'.pc = "raised" /\ rq'.raised = "fatal"
                     \/ rq'.pc = "loop" /\ rq.stream /\ rq'.raised = "timeout"
                          /\ rq'.sleeps = rq.sleeps
                     \/ rq'.pc = "sleep" /\ ~(rq.stream /\ rq'.raised = "timeout")
                          /\ rq'.sleeps = Append(rq.sleeps, 1 * Pow2(rq.attempt))
       /\ (rq.pc = "token" /\ rq'.pc = "inflight" /\ rq.forceToken # 0) =>
            /\ rq'.token >= rq.forceToken
            /\ rq'.token = rq'.mgrToken]_vars

\* The first request was answered 403, force_refresh returned, and the second
\* request is in flight with the token of that refresh and no sleep before it.
C23_Witness ==
    /\ rq.pc = "inflight" /\ rq.sent = 2 /\ rq.forced = 1 /\ ~rq.authFailed
    /\ rq.token = 2 /\ rq.mgrToken = 2
    /\ rq.sleeps = <<>>

(* C24: after an attempt k (0-based) that ends in 429, 5xx, a timeout or a
   connect error, request_with_retry sleeps base_retry_delay * 2^k before the
   next attempt, when stream=true as when stream=false. *)
C24_BackoffAfterFailure ==
    [][/\ (rq.pc = "inflight" /\ rq'.pc \notin {"inflight", "returned", "forcing"}) =>
            /\ rq'.pc = "sleep"
            /\ rq'.sleeps = Append(rq.sleeps, 1 * Pow2(rq.attempt))
            /\ rq'.attempt = rq.attempt
       /\ rq.pc = "sleep" => (rq'.pc = "loop" /\ rq'.attempt = rq.attempt + 1)]_vars

(***************************************************************************)
(*     stream_kiro_to_openai / collect_stream_response  (streaming.py)     *)
(***************************************************************************)

\* The number of chunks the upstream body delivers at most.
MaxChunks == 3

\* max_consecutive_timeouts = 3
MaxConsecutiveTimeouts == 3

\* What parser.feed(chunk) makes of one chunk in the model: the events it
\* returns and the tool calls it finalizes (TRUE: with a name, FALSE: without).
ChunkKinds == {"text", "texts", "meter", "ctx", "tool", "anon", "none"}

ChunkEvents(k) ==
    CASE k = "text"  -> <<"content">>
      [] k = "texts" -> <<"content", "content">>
      [] k = "meter" -> <<"usage">>
      [] k = "ctx"   -> <<"context_usage">>
      [] OTHER       -> <<>>

ChunkTools(k) ==
    CASE k = "tool" -> <<TRUE>>
      [] k = "anon" -> <<FALSE>>
      [] OTHER      -> <<>>

Item(t, n) == [t |-> t, n |-> n]

\* _format_tool_calls_for_streaming / _for_non_streaming: entries without a
\* name are dropped.
FormatToolCalls(tools) == SelectSeq(tools, LAMBDA named : named)

\* `finish_reason = "tool_calls" if all_tool_calls else "stop"`
FinishReason(r) == IF r.tools # <<>> THEN "tool_calls" ELSE "stop"

\* `"content": full_content if not all_tool_calls else None`
MessageContent(r) == IF r.tools = <<>> THEN "text" ELSE "none"

CloseOnExitLeaky(r) == IF r.pc = "cancelled" THEN r ELSE [r EXCEPT !.closed = TRUE]

\* `finally: await response.aclose()`
CloseOnExit(r) == [r EXCEPT !.closed = TRUE]

EndOfStreamChunksTerminalFirst(r) ==
    <<Item("terminal", 0)>>
    \o (IF r.tools # <<>>
        THEN <<Item("tool_calls", Len(FormatToolCalls(r.tools)))>>
        ELSE <<>>)
    \o <<Item("done", 0)>>

\* What is yielded after the read loop: `if all_tool_calls:` the tool_calls
\* chunk, then the final chunk with finish_reason and usage, then [DONE].
EndOfStreamChunks(r) ==
    (IF r.tools # <<>>
     THEN <<Item("tool_calls", Len(FormatToolCalls(r.tools)))>>
     ELSE <<>>)
    \o <<Item("terminal", 0), Item("done", 0)>>

StreamInit ==
    \E m \in {"stream", "collect"} :
        st = [StOff EXCEPT !.mode = m, !.pc = IF m = "stream" THEN "first" ELSE "collect"]

\* One event of parser.feed's list, in the emitter's `for event in events` loop.
Consume(r, ev) ==
    CASE ev = "content" ->
           [r EXCEPT !.parts = Append(@, Len(r.parts) + 1),
                     !.firstChunk = FALSE,
                     !.out = IF r.mode = "stream"
                             THEN Append(@, Item("content", Len(r.parts) + 1))
                             ELSE @]
      [] ev = "usage" -> [r EXCEPT !.metering = TRUE]
      [] ev = "context_usage" -> [r EXCEPT !.ctxSeen = TRUE]

RECURSIVE ConsumeAll(_, _)
ConsumeAll(r, evs) ==
    IF evs = <<>> THEN r ELSE ConsumeAll(Consume(r, Head(evs)), Tail(evs))

\* The first chunk arrives within the first-token timeout and is fed.
StreamFirstChunk(k) ==
    /\ st.mode = "stream" /\ st.pc = "first"
    /\ st.chunks < MaxChunks
    /\ st' = [st EXCEPT !.pc = "process", !.chunks = @ + 1,
                        !.pending = ChunkEvents(k), !.tools = @ \o ChunkTools(k)]
    /\ UNCHANGED notStream

\* asyncio.TimeoutError on the first chunk: FirstTokenTimeoutError is raised
\* through `except FirstTokenTimeoutError: raise`.
StreamFirstTimeout ==
    /\ st.mode = "stream" /\ st.pc = "first"
    /\ st' = CloseOnExit([st EXCEPT !.pc = "raised", !.err = "first_token_timeout"])
    /\ UNCHANGED notStream

\* StopAsyncIteration on the first chunk: `yield "data: [DONE]\n\n"; return`.
StreamEmptyBody ==
    /\ st.mode = "stream" /\ st.pc = "first"
    /\ st' = CloseOnExit([st EXCEPT !.pc = "empty", !.out = Append(@, Item("done", 0))])
    /\ UNCHANGED notStream

\* The next event of the fed chunk; a content event is yielded as a chunk.
StreamProcess ==
    /\ st.mode = "stream" /\ st.pc = "process"
    /\ st' = IF st.pending = <<>>
             THEN [st EXCEPT !.pc = "read"]
             ELSE [Consume(st, Head(st.pending)) EXCEPT !.pending = Tail(st.pending)]
    /\ UNCHANGED notStream

\* _read_chunk_with_timeout returns a chunk: consecutive_timeouts = 0, feed.
StreamReadChunk(k) ==
    /\ st.mode = "stream" /\ st.pc = "read"
    /\ st.iterAlive /\ st.chunks < MaxChunks
    /\ st' = [st EXCEPT !.pc = "process", !.chunks = @ + 1, !.timeouts = 0,
                        !.pending = ChunkEvents(k), !.tools = @ \o ChunkTools(k)]
    /\ UNCHANGED notStream

\* StopAsyncIteration: `break`.
StreamReadEof ==
    /\ st.mode = "stream" /\ st.pc = "read"
    /\ st' = [st EXCEPT !.pc = "finish"]
    /\ UNCHANGED notStream

\* StreamReadTimeoutError: tolerated up to max_consecutive_timeouts in a row,
\* then raised.  wait_for has cancelled the pending __anext__(): an iterator
\* that is an async generator is finished by it, another iterator survives.
StreamReadTimeout(survives) ==
    /\ st.mode = "stream" /\ st.pc = "read"
    /\ st.iterAlive
    /\ st' = IF st.timeouts + 1 <= MaxConsecutiveTimeouts
             THEN [st EXCEPT !.timeouts = @ + 1, !.iterAlive = survives]
             ELSE CloseOnExit([st EXCEPT !.timeouts = @ + 1, !.pc = "raised",
                                         !.err = "stream_read_timeout"])
    /\ UNCHANGED notStream

StreamErrorThenDone ==
    /\ st.mode = "stream" /\ st.pc \in {"first", "read", "process", "finish"}
    /\ st' = CloseOnExit([st EXCEPT !.pc = "swallowed", !.err = "error",
                                    !.out = Append(@, Item("done", 0))])
    /\ UNCHANGED notStream

\* Any other exception while reading or processing: `except Exception` logs
\* it and the generator ends.
StreamError ==
    /\ st.mode = "stream" /\ st.pc \in {"first", "read", "process", "finish"}
    /\ st' = CloseOnExit([st EXCEPT !.pc = "swallowed", !.err = "error"])
    /\ UNCHANGED notStream

\* End of stream: content is joined, the tool calls are collected and
\* deduplicated, finish_reason and usage are computed.
StreamFinish ==
    /\ st.mode = "stream" /\ st.pc = "finish"
    /\ st' = [st EXCEPT !.pc = "tail", !.tail = EndOfStreamChunks(st),
                        !.finish_reason = FinishReason(st)]
    /\ UNCHANGED notStream

\* The next of the closing chunks is yielded; after the last one the
\* generator returns.
StreamYieldTail ==
    /\ st.mode = "stream" /\ st.pc = "tail"
    /\ st.tail # <<>>
    /\ LET r == [st EXCEPT !.out = Append(@, Head(st.tail)), !.tail = Tail(st.tail)]
       IN st' = IF r.tail = <<>> THEN CloseOnExit([r EXCEPT !.pc = "done"]) ELSE r
    /\ UNCHANGED notStream

\* The consumer goes away (client disconnect): CancelledError or GeneratorExit
\* is raised at the await or yield the generator is suspended at.
StreamCancel ==
    /\ st.mode = "stream"
    /\ st.pc \in {"first", "read", "process", "tail"}
    /\ st' = CloseOnExit([st EXCEPT !.pc = "cancelled"])
    /\ UNCHANGED notStream

\* collect_stream_response: `async for chunk in response.aiter_bytes()`.
CollectChunk(k) ==
    /\ st.mode = "collect" /\ st.pc = "collect"
    /\ st.chunks < MaxChunks
    /\ st' = [ConsumeAll(st, ChunkEvents(k)) EXCEPT !.chunks = @ + 1,
                                                    !.tools = @ \o ChunkTools(k)]
    /\ UNCHANGED notStream

\* The body ends: the response is closed and the completion object is built.
CollectEof ==
    /\ st.mode = "collect" /\ st.pc = "collect"
    /\ st' = CloseOnExit([st EXCEPT !.pc = "done",
                                    !.out = <<Item("completion", Len(FormatToolCalls(st.tools)))>>,
                                    !.finish_reason = FinishReason(st),
                                    !.message_content = MessageContent(st)])
    /\ UNCHANGED notStream

\* Reading raises: the response is closed and the exception goes to the caller.
CollectError ==
    /\ st.mode = "collect" /\ st.pc = "collect"
    /\ st' = CloseOnExit([st EXCEPT !.pc = "raised", !.err = "error"])
    /\ UNCHANGED notStream

\* The request task is cancelled while the body is read.
CollectCancel ==
    /\ st.mode = "collect" /\ st.pc = "collect"
    /\ st' = CloseOnExit([st EXCEPT !.pc = "cancelled"])
    /\ UNCHANGED notStream

StreamNext ==
    \/ \E k \in ChunkKinds : StreamFirstChunk(k)
    \/ StreamFirstTimeout
    \/ StreamEmptyBody
    \/ StreamProcess
    \/ \E k \in ChunkKinds : StreamReadChunk(k)
    \/ StreamReadEof
    \/ \E survives \in BOOLEAN : StreamReadTimeout(survives)
    \/ StreamError
    \/ StreamFinish
    \/ StreamYieldTail
    \/ StreamCancel
    \/ \E k \in ChunkKinds : CollectChunk(k)
    \/ CollectEof
    \/ CollectError
    \/ CollectCancel

InitStream == StreamInit /\ AuthOff /\ HttpOff /\ ConvOff /\ ParserOff /\ ThinkingOff /\ RouteOff /\ DedupOff /\ CredsOff /\ CacheOff /\ UsageOff

SpecStream == InitStream /\ [][StreamNext]_vars

StreamExited == st.pc \in {"done", "empty", "raised", "swallowed", "cancelled"}

ContentItems(o) == SelectSeq(o, LAMBDA it : it.t = "content")

OtherItems(o) == SelectSeq(o, LAMBDA it : it.t # "content")

(* C8: a stream that completes normally consists of the content chunks, in
   upstream order, then at most one tool_calls chunk (exactly when tool calls
   were collected), then exactly one terminal chunk, then exactly one
   'data: [DONE]'; in no state is anything emitted after [DONE].  (An empty
   upstream body is the separate exit that yields [DONE] alone.) *)
C8_StreamOrder ==
    /\ (st.mode = "stream" /\ st.pc = "done")
       => /\ st.out = ContentItems(st.out) \o OtherItems(st.out)
          /\ ContentItems(st.out) = [i \in 1..Len(st.parts) |-> Item("content", st.parts[i])]
          /\ \A i \in 1..Len(st.parts) : st.parts[i] = i
          /\ OtherItems(st.out) =
                (IF st.tools # <<>>
                 THEN <<Item("tool_calls", Len(FormatToolCalls(st.tools)))>>
                 ELSE <<>>) \o <<Item("terminal", 0), Item("done", 0)>>
    /\ (st.mode = "stream" /\ st.pc = "empty") => st.out = <<Item("done", 0)>>
    /\ \A i \in 1..Len(st.out) : st.out[i].t = "done" => i = Len(st.out)
    /\ (st.mode = "stream" /\ StreamExited /\ st.pc \notin {"done", "empty"})
       => \A i \in 1..Len(st.out) : st.out[i].t # "done"

\* A normal completion with two content chunks, a tolerated timeout and a tool call.
C8_Witness ==
    /\ st.mode = "stream" /\ st.pc = "done"
    /\ Len(st.parts) >= 2 /\ st.tools # <<>>
    /\ Len(st.out) = Len(st.parts) + 3

(* C9: when an emitter has exited, on whichever path (normal completion,
   empty body, first-token timeout, stream-read timeout, swallowed exception,
   cancellation), the upstream response has been closed. *)
C9_ClosedOnExit == StreamExited => st.closed

\* The generator is cancelled after it has emitted content.
C9_Witness ==
    /\ st.mode = "stream" /\ st.pc = "cancelled" /\ st.closed
    /\ Len(st.out) >= 1

(* C26: when an exception other than a first-token or stream-read timeout
   occurs inside stream_kiro_to_openai, the generator ends without raising,
   what it has emitted stays as it is, with no terminal chunk and no
   'data: [DONE]' in it or after it, and the response body is closed. *)
C26_ErrorSwallowed ==
    [][/\ (st.mode = "stream" /\ st.pc # "swallowed" /\ st'.pc = "swallowed") =>
            /\ st'.out = st.out
            /\ \A i \in 1..Len(st'.out) : st'.out[i].t \notin {"terminal", "done"}
            /\ st'.closed
            /\ st'.err = "error"
       /\ st.pc = "swallowed" => st' = st]_vars

\* An exception after a content chunk and a tool call: the stream ends with
\* the content chunk alone.
C26_Witness ==
    /\ st.mode = "stream" /\ st.pc = "swallowed" /\ st.closed
    /\ st.out = <<Item("content", 1)>>
    /\ st.tools # <<>>

(* C25: in the streaming loop a stream-read timeout is tolerated while the
   count of consecutive timeouts is at most 3, the count is 0 again after a
   chunk is read, StreamReadTimeout is raised exactly at the 4th consecutive
   timeout, and after a tolerated timeout the loop can still read the chunks
   the upstream sends later. *)
C25_TimeoutsTolerated ==
    st.mode = "stream" =>
        /\ st.pc = "read" => st.timeouts <= 3
        /\ st.pc = "process" => st.timeouts = 0
        /\ (st.pc = "raised" /\ st.err = "stream_read_timeout") <=> st.timeouts = 4
        /\ (st.pc = "read" /\ st.timeouts > 0) => st.iterAlive

\* The tool calls the client was given: the entries of the tool_calls delta
\* chunk or of the aggregated message
Delivered(r) ==
    LET at == {i \in 1..Len(r.out) : r.out[i].t \in {"tool_calls", "completion"}}
    IN IF at = {} THEN 0 ELSE r.out[CHOOSE i \in at : TRUE].n

(* C39: in both emitters finish_reason is "tool_calls" exactly when at least
   one tool call is delivered to the client, and when none is delivered the
   aggregated message keeps its text content. *)
C39_FinishReason ==
    (st.mode \in {"stream", "collect"} /\ st.pc = "done") =>
        /\ st.finish_reason = "tool_calls" <=> Delivered(st) > 0
        /\ (st.mode = "collect" /\ Delivered(st) = 0) => st.message_content = "text"

(***************************************************************************)
(*                  build_kiro_payload  (converters.py)                    *)
(*                                                                         *)
(* A text is a sequence of atoms.  The text of message i of a request is   *)
(* the atom i, so every text of the payload can be traced to its message;  *)
(* the literals the code writes are the atoms below.  Images and the       *)
(* tools list of the current message are left out.                         *)
(***************************************************************************)

\* The number of messages of a request at most.
MaxMsgs == 3

\* "\n"
NL == 0

\* "(empty result)"
EmptyResultText == <<-1>>

\* "Continue"
ContinueText == <<-2>>

\* The documentation block of process_tools_with_long_descriptions when a
\* tool has a long description: it starts with "\n\n---\n".
ToolDocumentation == <<NL, NL, -3>>

ChatMessage(role, kind, text, blocks, toolCalls, toolCallId) ==
    [role |-> role, kind |-> kind, text |-> text, blocks |-> blocks,
     toolCalls |-> toolCalls, toolCallId |-> toolCallId]

TextBlock(text) == [t |-> "text", text |-> text, id |-> 0]

ToolResultBlock(id, text) == [t |-> "tool_result", text |-> text, id |-> id]

\* The messages a request can hold at position i.  role is any string for the
\* request model ("function" stands for the roles the translator has no
\* branch for); content is None, a string or a list of blocks.
MessageShapes(i) ==
    { ChatMessage("system", "str", <<i>>, <<>>, <<>>, 0),
      ChatMessage("system", "none", <<>>, <<>>, <<>>, 0),
      ChatMessage("user", "str", <<i>>, <<>>, <<>>, 0),
      ChatMessage("user", "none", <<>>, <<>>, <<>>, 0),
      ChatMessage("user", "list", <<>>, <<TextBlock(<<i>>)>>, <<>>, 0),
      ChatMessage("assistant", "str", <<i>>, <<>>, <<>>, 0),
      ChatMessage("assistant", "str", <<i>>, <<>>, <<i>>, 0),
      ChatMessage("tool", "str", <<i>>, <<>>, <<>>, i),
      ChatMessage("tool", "none", <<>>, <<>>, <<>>, i),
      ChatMessage("function", "str", <<i>>, <<>>, <<>>, 0) }

RECURSIVE RequestsOfLength(_)
RequestsOfLength(n) ==
    IF n = 0 THEN {<<>>}
    ELSE {Append(ms, m) : ms \in RequestsOfLength(n - 1), m \in MessageShapes(n)}

Requests == UNION {RequestsOfLength(n) : n \in 1..MaxMsgs}

RECURSIVE JoinTexts(_)
JoinTexts(blocks) ==
    IF blocks = <<>> THEN <<>>
    ELSE (IF Head(blocks).t = "text" THEN Head(blocks).text ELSE <<>>)
         \o JoinTexts(Tail(blocks))

extract_text_content(m) ==
    CASE m.kind = "none" -> <<>>
      [] m.kind = "str"  -> m.text
      [] m.kind = "list" -> JoinTexts(m.blocks)

\* str.strip() on a text whose only whitespace is "\n"
RECURSIVE Strip(_)
Strip(s) ==
    IF s = <<>> THEN <<>>
    ELSE IF Head(s) = NL THEN Strip(Tail(s))
    ELSE IF s[Len(s)] = NL THEN Strip(SubSeq(s, 1, Len(s) - 1))
    ELSE s

RECURSIVE SystemTexts(_)
SystemTexts(messages) ==
    IF messages = <<>> THEN <<>>
    ELSE (IF Head(messages).role = "system"
          THEN extract_text_content(Head(messages)) \o <<NL>>
          ELSE <<>>)
         \o SystemTexts(Tail(messages))

\* _extract_system_and_tool_docs: the system prompt
SystemPrompt(messages, longTool) ==
    LET sp == Strip(SystemTexts(messages))
        doc == IF longTool THEN ToolDocumentation ELSE <<>>
    IN IF doc # <<>>
       THEN (IF sp # <<>> THEN sp \o doc ELSE Strip(doc))
       ELSE sp

\* _extract_system_and_tool_docs: the other messages
NonSystemMessages(messages) == SelectSeq(messages, LAMBDA m : m.role # "system")

\* A user message that carries the collected tool results.
ToolResultsMessage(pending) == ChatMessage("user", "list", <<>>, pending, <<>>, 0)

\* merge_adjacent_messages, first loop: a run of role=tool messages becomes
\* one user message with one tool_result block per message.
RECURSIVE FoldToolMessages(_, _, _)
FoldToolMessages(msgs, pending, processed) ==
    IF msgs = <<>>
    THEN (IF pending # <<>> THEN Append(processed, ToolResultsMessage(pending)) ELSE processed)
    ELSE LET msg == Head(msgs)
             text == extract_text_content(msg)
         IN IF msg.role = "tool"
            THEN FoldToolMessages(Tail(msgs),
                    Append(pending, ToolResultBlock(msg.toolCallId,
                                       IF text # <<>> THEN text ELSE EmptyResultText)),
                    processed)
            ELSE FoldToolMessages(Tail(msgs), <<>>,
                    Append(IF pending # <<>>
                           THEN Append(processed, ToolResultsMessage(pending))
                           ELSE processed, msg))

SameRoleNever(last, msg) == FALSE

\* `if msg.role == last.role:`
SameRole(last, msg) == msg.role = last.role

\* The merge of msg into the message before it.
MergeInto(last, msg) ==
    LET content ==
          CASE last.kind = "list" /\ msg.kind = "list" ->
                 [kind |-> "list", text |-> <<>>, blocks |-> last.blocks \o msg.blocks]
            [] last.kind = "list" /\ msg.kind # "list" ->
                 [kind |-> "list", text |-> <<>>,
                  blocks |-> Append(last.blocks, TextBlock(extract_text_content(msg)))]
            [] last.kind # "list" /\ msg.kind = "list" ->
                 [kind |-> "list", text |-> <<>>,
                  blocks |-> <<TextBlock(extract_text_content(last))>> \o msg.blocks]
            [] OTHER ->
                 [kind |-> "str", blocks |-> <<>>,
                  text |-> extract_text_content(last) \o <<NL>> \o extract_text_content(msg)]
    IN [last EXCEPT !.kind = content.kind, !.text = content.text, !.blocks = content.blocks,
                    !.toolCalls = IF msg.role = "assistant" /\ msg.toolCalls # <<>>
                                  THEN last.toolCalls \o msg.toolCalls
                                  ELSE @]

\* merge_adjacent_messages, second loop
RECURSIVE MergeAll(_, _)
MergeAll(processed, merged) ==
    IF processed = <<>> THEN merged
    ELSE LET msg == Head(processed)
         IN IF merged = <<>>
            THEN MergeAll(Tail(processed), <<msg>>)
            ELSE LET last == merged[Len(merged)]
                 IN IF SameRole(last, msg)
                    THEN MergeAll(Tail(processed),
                                  [merged EXCEPT ![Len(merged)] = MergeInto(last, msg)])
                    ELSE MergeAll(Tail(processed), Append(merged, msg))

merge_adjacent_messages(messages) ==
    IF messages = <<>> THEN <<>>
    ELSE MergeAll(FoldToolMessages(messages, <<>>, <<>>), <<>>)

\* _extract_tool_results
extract_tool_results(m) ==
    IF m.kind = "list"
    THEN SelectSeq(m.blocks, LAMBDA b : b.t = "tool_result")
    ELSE <<>>

HistoryEntry(kind, content, toolResults, toolUses) ==
    [kind |-> kind, content |-> content, toolResults |-> toolResults, toolUses |-> toolUses]

\* build_kiro_history: a message whose role is neither user nor assistant
\* adds nothing.
RECURSIVE build_kiro_history(_)
build_kiro_history(messages) ==
    IF messages = <<>> THEN <<>>
    ELSE LET msg == Head(messages)
         IN (CASE msg.role = "user" ->
                    <<HistoryEntry("userInputMessage", extract_text_content(msg),
                                   extract_tool_results(msg), <<>>)>>
               [] msg.role = "assistant" ->
                    <<HistoryEntry("assistantResponseMessage", extract_text_content(msg),
                                   <<>>, msg.toolCalls)>>
               [] OTHER -> <<>>)
            \o build_kiro_history(Tail(messages))

PayloadOfKeepsContent(merged, system_prompt) ==
    LET history_messages == IF Len(merged) > 1 THEN SubSeq(merged, 1, Len(merged) - 1) ELSE <<>>
        folded ==
          IF system_prompt # <<>> /\ history_messages # <<>> /\ history_messages[1].role = "user"
          THEN [history_messages EXCEPT ![1] =
                  [@ EXCEPT !.kind = "str", !.blocks = <<>>,
                            !.text = system_prompt \o <<NL, NL>>
                                     \o extract_text_content(history_messages[1])]]
          ELSE history_messages
        history == build_kiro_history(folded)
        current_message == merged[Len(merged)]
        text == extract_text_content(current_message)
        current_content == IF system_prompt # <<>> /\ history = <<>>
                           THEN system_prompt \o <<NL, NL>> \o text
                           ELSE text
        asst == current_message.role = "assistant"
        final_history == IF asst
                         THEN Append(history, HistoryEntry("assistantResponseMessage",
                                                           current_content, <<>>, <<>>))
                         ELSE history
        final_content == IF current_content = <<>> THEN ContinueText ELSE current_content
    IN [history |-> final_history, content |-> final_content,
        toolResults |-> extract_tool_results(current_message)]

\* build_kiro_payload, from the merged messages on.
PayloadOf(merged, system_prompt) ==
    LET history_messages == IF Len(merged) > 1 THEN SubSeq(merged, 1, Len(merged) - 1) ELSE <<>>
        folded ==
          IF system_prompt # <<>> /\ history_messages # <<>> /\ history_messages[1].role = "user"
          THEN [history_messages EXCEPT ![1] =
                  [@ EXCEPT !.kind = "str", !.blocks = <<>>,
                            !.text = system_prompt \o <<NL, NL>>
                                     \o extract_text_content(history_messages[1])]]
          ELSE history_messages
        history == build_kiro_history(folded)
        current_message == merged[Len(merged)]
        text == extract_text_content(current_message)
        current_content == IF system_prompt # <<>> /\ history = <<>>
                           THEN system_prompt \o <<NL, NL>> \o text
                           ELSE text
        asst == current_message.role = "assistant"
        final_history == IF asst
                         THEN Append(history, HistoryEntry("assistantResponseMessage",
                                                           current_content, <<>>, <<>>))
                         ELSE history
        final_content == IF asst \/ current_content = <<>> THEN ContinueText ELSE current_content
    IN [history |-> final_history, content |-> final_content,
        toolResults |-> extract_tool_results(current_message)]

build_kiro_payload(messages, longTool) ==
    PayloadOf(merge_adjacent_messages(NonSystemMessages(messages)),
              SystemPrompt(messages, longTool))

ConvInit ==
    \E ms \in Requests, lt \in BOOLEAN :
        cv = [CvOff EXCEPT !.pc = "request", !.messages = ms, !.longTool = lt]

\* The payload is built.
ConvBuild ==
    /\ cv.pc = "request"
    /\ merge_adjacent_messages(NonSystemMessages(cv.messages)) # <<>>
    /\ cv' = [cv EXCEPT !.pc = "built",
                        !.payload = build_kiro_payload(cv.messages, cv.longTool)]
    /\ UNCHANGED notConv

\* `if not merged_messages: raise ValueError("No messages to send")`
ConvReject ==
    /\ cv.pc = "request"
    /\ merge_adjacent_messages(NonSystemMessages(cv.messages)) = <<>>
    /\ cv' = [cv EXCEPT !.pc = "rejected"]
    /\ UNCHANGED notConv

ConvNext == ConvBuild \/ ConvReject

InitConv == ConvInit /\ AuthOff /\ HttpOff /\ StreamOff /\ ParserOff /\ ThinkingOff /\ RouteOff /\ DedupOff /\ CredsOff /\ CacheOff /\ UsageOff

SpecConv == InitConv /\ [][ConvNext]_vars

KnownRoles(messages) ==
    \A i \in 1..Len(messages) : messages[i].role \in {"system", "user", "assistant", "tool"}

Alternates(history) ==
    \A i \in 1..(Len(history) - 1) : history[i].kind # history[i + 1].kind

(* C6: for a request whose messages use the roles system, user, assistant
   and tool, no two consecutive entries of the payload's history are both
   userInputMessage or both assistantResponseMessage, the entry appended for
   a last assistant message included. *)
C6_HistoryAlternates ==
    (cv.pc = "built" /\ KnownRoles(cv.messages)) => Alternates(cv.payload.history)

\* A user message, a tool message merged into it, a last assistant message.
C6_Witness ==
    /\ cv.pc = "built" /\ KnownRoles(cv.messages)
    /\ Len(cv.messages) = 3
    /\ cv.messages[1].role = "user" /\ cv.messages[2].role = "tool"
    /\ cv.messages[3].role = "assistant"
    /\ Len(cv.payload.history) = 2
    /\ cv.payload.history[2].kind = "assistantResponseMessage"
    /\ cv.payload.content = ContinueText

StartsWith(s, prefix) ==
    Len(s) >= Len(prefix) /\ SubSeq(s, 1, Len(prefix)) = prefix

\* The number of places of text s at which sub occurs.
CountSub(sub, s) ==
    Cardinality({k \in 1..Len(s) : k + Len(sub) - 1 <= Len(s)
                                   /\ SubSeq(s, k, k + Len(sub) - 1) = sub})

RECURSIVE CountInHistory(_, _)
CountInHistory(sub, history) ==
    IF history = <<>> THEN 0
    ELSE CountSub(sub, Head(history).content) + CountInHistory(sub, Tail(history))

SystemOccurrences(sub, payload) ==
    CountInHistory(sub, payload.history) + CountSub(sub, payload.content)

(* C7: for a request with at least one system message (with text) and at
   least one other message, the system text occurs exactly once in the
   payload: at the head of the first userInputMessage of history, or at the
   head of the currentMessage content when history is empty. *)
C7_SystemTextOnce ==
    LET sp == SystemPrompt(cv.messages, cv.longTool)
        p == cv.payload
    IN (cv.pc = "built" /\ KnownRoles(cv.messages) /\ Strip(SystemTexts(cv.messages)) # <<>>)
       => /\ SystemOccurrences(sp, p) = 1
          /\ IF p.history = <<>>
             THEN StartsWith(p.content, sp \o <<NL, NL>>)
             ELSE \E i \in 1..Len(p.history) :
                    /\ p.history[i].kind = "userInputMessage"
                    /\ \A j \in 1..(i - 1) : p.history[j].kind # "userInputMessage"
                    /\ StartsWith(p.history[i].content, sp \o <<NL, NL>>)

\* The merged messages of the request being translated.
Merged == merge_adjacent_messages(NonSystemMessages(cv.messages))

LastMerged == Merged[Len(Merged)]

\* The history entries of the merged messages before the last one.
EarlierHistory == build_kiro_history(SubSeq(Merged, 1, Len(Merged) - 1))

EndsWith(s, suffix) ==
    Len(s) >= Len(suffix) /\ SubSeq(s, Len(s) - Len(suffix) + 1, Len(s)) = suffix

\* The content is never empty; a last assistant message is the last entry of
\* history, one more than the earlier messages give, and the content is then
\* "Continue".
NonEmptyAndAssistantLast ==
    /\ cv.payload.content # <<>>
    /\ LastMerged.role = "assistant"
       => /\ cv.payload.content = ContinueText
          /\ Len(cv.payload.history) = Len(EarlierHistory) + 1
          /\ cv.payload.history[Len(cv.payload.history)].kind = "assistantResponseMessage"
          /\ EndsWith(cv.payload.history[Len(cv.payload.history)].content,
                      extract_text_content(LastMerged))

(* C20 as stated: the currentMessage content of every payload is not empty; a
   last assistant message becomes the last history entry and the content is
   "Continue"; a last message with empty text gives the content "Continue". *)
C20_EmptyTextContinues ==
    cv.pc = "built"
    => /\ NonEmptyAndAssistantLast
       /\ extract_text_content(LastMerged) = <<>> => cv.payload.content = ContinueText

(* C20, amended: as above, but a last message with empty text that is not an
   assistant message gives the content "Continue" only when no system prompt
   is put in front of it; with a system prompt and an empty history the
   content is the system prompt and two newlines. *)
C20_CurrentContent ==
    cv.pc = "built"
    => /\ NonEmptyAndAssistantLast
       /\ (extract_text_content(LastMerged) = <<>> /\ LastMerged.role # "assistant")
          => cv.payload.content =
               (IF SystemPrompt(cv.messages, cv.longTool) # <<>> /\ EarlierHistory = <<>>
                THEN SystemPrompt(cv.messages, cv.longTool) \o <<NL, NL>>
                ELSE ContinueText)

\* A system message and a user message without content: the content is the
\* system prompt and two newlines.
C20_Witness ==
    /\ cv.pc = "built"
    /\ Len(cv.messages) = 2
    /\ cv.messages[1].role = "system" /\ cv.messages[1].kind = "str"
    /\ cv.messages[2].role = "user" /\ cv.messages[2].kind = "none"
    /\ ~cv.longTool
    /\ cv.payload.history = <<>>
    /\ cv.payload.content = <<1, NL, NL>>

\* The tool_call_id of every role=tool message of the request, in order
RECURSIVE ToolCallIds(_)
ToolCallIds(messages) ==
    IF messages = <<>> THEN <<>>
    ELSE (IF Head(messages).role = "tool" THEN <<Head(messages).toolCallId>> ELSE <<>>)
         \o ToolCallIds(Tail(messages))

\* The toolUseId of every toolResults entry of a list of tool_result blocks
RECURSIVE ToolUseIds(_)
ToolUseIds(toolResults) ==
    IF toolResults = <<>> THEN <<>>
    ELSE <<Head(toolResults).id>> \o ToolUseIds(Tail(toolResults))

\* The toolUseId of every toolResults entry of the history, in order
RECURSIVE HistoryToolUseIds(_)
HistoryToolUseIds(history) ==
    IF history = <<>> THEN <<>>
    ELSE ToolUseIds(Head(history).toolResults) \o HistoryToolUseIds(Tail(history))

(* C22: for every request, each role=tool message contributes exactly one
   toolResults entry to the payload, in the history's user entries or in
   currentMessage, in the original order and with its tool_call_id as
   toolUseId: none is lost or duplicated, also when the system prompt is
   folded into the user entry or the entry is merged with a user message. *)
C22_ToolResultsKept ==
    cv.pc = "built"
    => HistoryToolUseIds(cv.payload.history) \o ToolUseIds(cv.payload.toolResults)
         = ToolCallIds(cv.messages)

(* C38: when the last merged message is an assistant message with
   tool_calls, the assistantResponseMessage appended to the history for it
   carries those tool calls as toolUses. *)
C38_LastAssistantToolUses ==
    cv.pc = "built" =>
        LET merged == merge_adjacent_messages(NonSystemMessages(cv.messages))
            last == merged[Len(merged)]
            history == cv.payload.history
        IN (last.role = "assistant" /\ last.toolCalls # <<>>)
           => /\ history # <<>>
              /\ history[Len(history)].kind = "assistantResponseMessage"
              /\ history[Len(history)].toolUses = last.toolCalls

(***************************************************************************)
(*                   AwsEventStreamParser  (parsers.py)                    *)
(*                                                                         *)
(* A text is a sequence of characters, each a string; "U+E9" is the        *)
(* character e-acute.  A byte sequence is a sequence of bytes: an ASCII    *)
(* byte is written as its character, "xC3" "xA9" are the two bytes of the  *)
(* UTF-8 encoding of "U+E9".  The JSON of the model has objects, strings   *)
(* with the escapes \" \\ and \u00e9, unsigned integers, true, false and *)
(* null; arrays, signs, fractions, exponents and other escapes are not in  *)
(* the upstream sequences of the model.                                    *)
(***************************************************************************)

\* bytes.decode('utf-8', errors='ignore') of one chunk: a lead byte gives its
\* character when its continuation byte follows it and is dropped otherwise,
\* a continuation byte gives nothing.
Decode(bytes) ==
    LET char == [i \in 1..Len(bytes) |->
                   IF bytes[i] = "xC3"
                   THEN (IF i < Len(bytes) /\ bytes[i + 1] = "xA9" THEN "U+E9" ELSE "")
                   ELSE IF bytes[i] = "xA9" THEN ""
                   ELSE bytes[i]]
    IN SelectSeq(char, LAMBDA c : c # "")

Digits == {"0", "1", "2", "3", "4", "5", "6", "7", "8", "9"}

StrValue(s) == Value("str", s, <<>>)

ParseFail == [ok |-> FALSE, v |-> None, next |-> 0]

ParseOk(v, next) == [ok |-> TRUE, v |-> v, next |-> next]

MatchAt(t, i, lit) ==
    i + Len(lit) - 1 <= Len(t) /\ SubSeq(t, i, i + Len(lit) - 1) = lit

RECURSIVE SkipWs(_, _)
SkipWs(t, i) == IF i <= Len(t) /\ t[i] = " " THEN SkipWs(t, i + 1) ELSE i

\* The string whose opening quote is at i - 1: acc is what is read so far.
RECURSIVE ParseStringFrom(_, _, _)
ParseStringFrom(t, i, acc) ==
    IF i > Len(t) THEN ParseFail
    ELSE IF t[i] = "\"" THEN ParseOk(StrValue(acc), i + 1)
    ELSE IF t[i] = "\\"
         THEN (IF MatchAt(t, i + 1, <<"\"">>) THEN ParseStringFrom(t, i + 2, Append(acc, "\""))
               ELSE IF MatchAt(t, i + 1, <<"\\">>) THEN ParseStringFrom(t, i + 2, Append(acc, "\\"))
               ELSE IF MatchAt(t, i + 1, <<"u", "0", "0", "e", "9">>)
                    THEN ParseStringFrom(t, i + 6, Append(acc, "U+E9"))
               ELSE ParseFail)
    ELSE ParseStringFrom(t, i + 1, Append(acc, t[i]))

RECURSIVE ParseDigits(_, _, _)
ParseDigits(t, i, acc) ==
    IF i <= Len(t) /\ t[i] \in Digits THEN ParseDigits(t, i + 1, Append(acc, t[i]))
    ELSE ParseOk(Value("num", acc, <<>>), i)

\* 0 | [1-9][0-9]*
ParseNumber(t, i) ==
    IF t[i] = "0" THEN ParseOk(Value("num", <<"0">>, <<>>), i + 1)
    ELSE ParseDigits(t, i, <<>>)

\* dict[key] = val: a repeated key keeps its place and takes the last value.
PutMember(m, key, val) ==
    IF \E i \in 1..Len(m) : m[i].key = key
    THEN [i \in 1..Len(m) |-> IF m[i].key = key THEN [key |-> key, val |-> val] ELSE m[i]]
    ELSE Append(m, [key |-> key, val |-> val])

RECURSIVE ParseValue(_, _)
RECURSIVE ParseMembers(_, _, _)

\* The members of an object from position i on, a key expected at i: the key,
\* a colon, the value, then a comma or the closing brace.
ParseMembers(t, i, acc) ==
    LET End(e, m) ==
            IF MatchAt(t, e, <<",">>) THEN ParseMembers(t, e + 1, m)
            ELSE IF MatchAt(t, e, <<"}">>) THEN ParseOk(Value("obj", <<>>, m), e + 1)
            ELSE ParseFail
        AfterValue(key, val) ==
            IF ~val.ok THEN ParseFail
            ELSE End(SkipWs(t, val.next), PutMember(acc, key, val.v))
        AfterKey(key) ==
            IF ~key.ok \/ ~MatchAt(t, SkipWs(t, key.next), <<":">>) THEN ParseFail
            ELSE AfterValue(key.v.s, ParseValue(t, SkipWs(t, key.next) + 1))
        KeyAt(k) ==
            IF ~MatchAt(t, k, <<"\"">>) THEN ParseFail
            ELSE AfterKey(ParseStringFrom(t, k + 1, <<>>))
    IN KeyAt(SkipWs(t, i))

ParseValue(t, i) ==
    LET ObjectAt(k) ==
            IF MatchAt(t, k, <<"}">>) THEN ParseOk(Value("obj", <<>>, <<>>), k + 1)
            ELSE ParseMembers(t, k, <<>>)
        ValueAt(j) ==
            IF j > Len(t) THEN ParseFail
            ELSE IF t[j] = "{" THEN ObjectAt(SkipWs(t, j + 1))
            ELSE IF t[j] = "\"" THEN ParseStringFrom(t, j + 1, <<>>)
            ELSE IF t[j] \in Digits THEN ParseNumber(t, j)
            ELSE IF MatchAt(t, j, <<"t", "r", "u", "e">>)
                 THEN ParseOk(Value("true", <<>>, <<>>), j + 4)
            ELSE IF MatchAt(t, j, <<"f", "a", "l", "s", "e">>)
                 THEN ParseOk(Value("false", <<>>, <<>>), j + 5)
            ELSE IF MatchAt(t, j, <<"n", "u", "l", "l">>) THEN ParseOk(None, j + 4)
            ELSE ParseFail
    IN ValueAt(SkipWs(t, i))

\* json.loads: ok is FALSE for JSONDecodeError; the value read from the start
\* of t has to be the whole of t, up to white space.
json_loads(t) ==
    LET Whole(r) == IF r.ok /\ SkipWs(t, r.next) > Len(t) THEN r ELSE ParseFail
    IN Whole(ParseValue(t, 1))

\* A string as json.dumps writes it (ensure_ascii).
RECURSIVE DumpChars(_)
DumpChars(s) ==
    IF s = <<>> THEN <<>>
    ELSE (CASE Head(s) = "\"" -> <<"\\", "\"">>
            [] Head(s) = "\\" -> <<"\\", "\\">>
            [] Head(s) = "U+E9" -> <<"\\", "u", "0", "0", "e", "9">>
            [] OTHER -> <<Head(s)>>)
         \o DumpChars(Tail(s))

RECURSIVE json_dumps(_)
RECURSIVE DumpMembers(_)

DumpMembers(m) ==
    IF m = <<>> THEN <<>>
    ELSE <<"\"">> \o DumpChars(Head(m).key) \o <<"\"", ":", " ">> \o json_dumps(Head(m).val)
         \o (IF Tail(m) = <<>> THEN <<>> ELSE <<",", " ">> \o DumpMembers(Tail(m)))

json_dumps(v) ==
    CASE v.k = "obj"   -> <<"{">> \o DumpMembers(v.m) \o <<"}">>
      [] v.k = "str"   -> <<"\"">> \o DumpChars(v.s) \o <<"\"">>
      [] v.k = "num"   -> v.s
      [] v.k = "true"  -> <<"t", "r", "u", "e">>
      [] v.k = "false" -> <<"f", "a", "l", "s", "e">>
      [] v.k = "null"  -> <<"n", "u", "l", "l">>

\* bool(v)
Truthy(v) ==
    CASE v.k = "obj"  -> v.m # <<>>
      [] v.k = "str"  -> v.s # <<>>
      [] v.k = "num"  -> v.s # <<"0">>
      [] v.k = "true" -> TRUE
      [] OTHER        -> FALSE

\* str(v) of a value that is not a dict
py_str(v) ==
    CASE v.k = "str"   -> v.s
      [] v.k = "num"   -> v.s
      [] v.k = "true"  -> <<"T", "r", "u", "e">>
      [] v.k = "false" -> <<"F", "a", "l", "s", "e">>
      [] v.k = "null"  -> <<"N", "o", "n", "e">>

\* data.get(key, default)
Get(data, key, default) ==
    IF data.k = "obj" /\ \E i \in 1..Len(data.m) : data.m[i].key = key
    THEN data.m[CHOOSE i \in 1..Len(data.m) : data.m[i].key = key].val
    ELSE default

Chars(str) ==
    CASE str = "content" -> <<"c", "o", "n", "t", "e", "n", "t">>
      [] str = "name" -> <<"n", "a", "m", "e">>
      [] str = "input" -> <<"i", "n", "p", "u", "t">>
      [] str = "stop" -> <<"s", "t", "o", "p">>
      [] str = "followupPrompt" ->
           <<"f", "o", "l", "l", "o", "w", "u", "p", "P", "r", "o", "m", "p", "t">>
      [] str = "usage" -> <<"u", "s", "a", "g", "e">>
      [] str = "contextUsagePercentage" ->
           <<"c", "o", "n", "t", "e", "x", "t", "U", "s", "a", "g", "e",
             "P", "e", "r", "c", "e", "n", "t", "a", "g", "e">>
      [] str = "toolUseId" -> <<"t", "o", "o", "l", "U", "s", "e", "I", "d">>

\* _PATTERN_TYPE_MAP: the key of the pattern and the event type
PatternTypes ==
    { <<"content", "content">>, <<"name", "tool_start">>, <<"input", "tool_input">>,
      <<"stop", "tool_stop">>, <<"followupPrompt", "followup">>, <<"usage", "usage">>,
      <<"contextUsagePercentage", "context_usage">> }

PatternOf(key) == <<"{", "\"">> \o Chars(key) \o <<"\"", ":">>

\* _PATTERN_REGEX.search(buffer): the first position a pattern matches at, 0 if none
PatternSearch(buffer) ==
    LET First(hits) == IF hits = {} THEN 0 ELSE CHOOSE i \in hits : \A j \in hits : i <= j
    IN First({i \in 1..Len(buffer) :
                \E pt \in PatternTypes : MatchAt(buffer, i, PatternOf(pt[1]))})

\* _PATTERN_TYPE_MAP.get(pattern_prefix) for the pattern that matches at i
TypeAt(buffer, i) ==
    (CHOOSE pt \in PatternTypes : MatchAt(buffer, i, PatternOf(pt[1])))[2]

\* find_matching_brace: the position of the closing brace, 0 for -1.  One pass
\* of the loop either returns i, at a brace outside a string that brings
\* brace_count to 0, or goes on with the new brace_count, in_string and
\* escape_next.
RECURSIVE BraceScan(_, _, _, _, _)
BraceScan(text, i, brace_count, in_string, escape_next) ==
    IF i > Len(text) THEN 0
    ELSE IF brace_count - 1 = 0 /\ ~escape_next /\ ~in_string /\ text[i] = "}" THEN i
    ELSE BraceScan(text, i + 1,
                   IF escape_next \/ in_string THEN brace_count
                   ELSE IF text[i] = "{" THEN brace_count + 1
                   ELSE IF text[i] = "}" THEN brace_count - 1
                   ELSE brace_count,
                   IF ~escape_next /\ text[i] = "\"" THEN ~in_string ELSE in_string,
                   ~escape_next /\ in_string /\ text[i] = "\\")

find_matching_brace(text, start_pos) ==
    IF start_pos > Len(text) \/ text[start_pos] # "{" THEN 0
    ELSE BraceScan(text, start_pos, 0, FALSE, FALSE)

\* str.strip() on a text whose only whitespace is " "
RECURSIVE StripWs(_)
StripWs(s) ==
    IF s = <<>> THEN <<>>
    ELSE IF Head(s) = " " THEN StripWs(Tail(s))
    ELSE IF s[Len(s)] = " " THEN StripWs(SubSeq(s, 1, Len(s) - 1))
    ELSE s

Count(s, char) == Cardinality({i \in 1..Len(s) : s[i] = char})

Repeat(char, n) == [i \in 1..n |-> char]

\* whether a json.loads result is a JSON object
IsObject(r) == r.ok /\ r.v.k = "obj"

\* The arguments string _finalize_tool_call leaves for the buffer args:
\* json.dumps of what json.loads gives; when json.loads raises, closing braces
\* are added to the stripped text if it has more opening than closing ones.
FinalArguments(args) ==
    LET DumpsOr(parsed, except) == IF parsed.ok THEN json_dumps(parsed.v) ELSE except
        AutoComplete(fixed_args, open_braces, close_braces) ==
            IF open_braces > close_braces
            THEN DumpsOr(json_loads(fixed_args \o Repeat("}", open_braces - close_braces)),
                         <<"{", "}">>)
            ELSE <<"{", "}">>
        Fixed(fixed_args) ==
            AutoComplete(fixed_args, Count(fixed_args, "{"), Count(fixed_args, "}"))
    IN IF StripWs(args) = <<>> THEN <<"{", "}">>
       ELSE DumpsOr(json_loads(args), Fixed(StripWs(args)))

\* A parser that forgets the call in flight instead of completing it
finalize_tool_call_drops(p) == [p EXCEPT !.current_tool_call = NoToolCall]

\* _finalize_tool_call
finalize_tool_call(p) ==
    IF ~p.current_tool_call.present THEN p
    ELSE [p EXCEPT !.tool_calls = Append(@, [p.current_tool_call EXCEPT
                                               !.arguments = FinalArguments(@)]),
                   !.current_tool_call = NoToolCall]

\* generate_tool_call_id(): the n-th identifier made for this parser
MintedId(n) == StrValue(<<"call_", <<"0", "1", "2", "3", "4", "5", "6", "7", "8", "9">>[n + 1]>>)

\* json.dumps(input) for a dict, str(input) for another truthy value, else ''
InputStr(data) ==
    LET Text(input_data) ==
            IF input_data.k = "obj" THEN json_dumps(input_data)
            ELSE IF Truthy(input_data) THEN py_str(input_data)
            ELSE <<>>
    IN Text(Get(data, Chars("input"), StrValue(<<>>)))

Event(type, data) == [type |-> type, data |-> data]

NoEvent == Event("none", None)

\* A parser that takes no object for a followup prompt
IsFollowupNever(data) == FALSE

\* `if data.get('followupPrompt'):`
IsFollowup(data) == Truthy(Get(data, Chars("followupPrompt"), None))

\* A parser that never takes the arguments read so far for complete
ArgumentsParseNever(current_args) == FALSE

\* `if current_args.strip():` and json.loads(current_args) does not raise
ArgumentsParse(current_args) ==
    StripWs(current_args) # <<>> /\ json_loads(current_args).ok

\* _process_event: the parser after the event and what it returns
process_event(p, event_type, data) ==
    LET Content(content) ==
            IF IsFollowup(data)
            THEN [p |-> p, ev |-> NoEvent]
            ELSE IF Truthy(content) /\ content # p.last_content
                 THEN [p |-> [p EXCEPT !.last_content = content],
                       ev |-> Event("content", content)]
                 ELSE [p |-> p, ev |-> NoEvent]
        \* the new current_tool_call of q, the parser after `_finalize_tool_call`;
        \* generate_tool_call_id() is called whether or not there is a toolUseId
        ToolStart(q) ==
            [q EXCEPT !.minted = @ + 1,
                      !.current_tool_call =
                          [present |-> TRUE,
                           id |-> Get(data, Chars("toolUseId"), MintedId(q.minted + 1)),
                           name |-> Get(data, Chars("name"), StrValue(<<>>)),
                           arguments |-> InputStr(data)]]
        StopIfAsked(q) ==
            IF Truthy(Get(data, Chars("stop"), None)) THEN finalize_tool_call(q) ELSE q
        ToolInput(current_args) ==
            IF ArgumentsParse(current_args)
            THEN p
            ELSE [p EXCEPT !.current_tool_call.arguments = current_args \o InputStr(data)]
    IN
    CASE event_type = "content" ->
           Content(Get(data, Chars("content"), StrValue(<<>>)))
      [] event_type = "tool_start" ->
           [p |-> StopIfAsked(ToolStart(finalize_tool_call(p))), ev |-> NoEvent]
      [] event_type = "tool_input" ->
           [p |-> IF ~p.current_tool_call.present THEN p
                  ELSE ToolInput(p.current_tool_call.arguments),
            ev |-> NoEvent]
      [] event_type = "tool_stop" ->
           [p |-> IF p.current_tool_call.present /\ Truthy(Get(data, Chars("stop"), None))
                  THEN finalize_tool_call(p) ELSE p,
            ev |-> NoEvent]
      [] event_type = "usage" ->
           [p |-> p, ev |-> Event("usage", Get(data, Chars("usage"), None))]
      [] event_type = "context_usage" ->
           [p |-> p, ev |-> Event("context_usage", Get(data, Chars("contextUsagePercentage"), None))]
      [] OTHER -> [p |-> p, ev |-> NoEvent]

\* Whether the `while True` loop of feed has another slice to take: a pattern
\* matches and its closing brace is in the buffer.
HasSlice(p) ==
    LET At(earliest_pos) ==
            earliest_pos # 0 /\ find_matching_brace(p.buffer, earliest_pos) # 0
    IN At(PatternSearch(p.buffer))

\* One pass of the loop.  The slice is cut out of the buffer before it is
\* parsed; a slice that is not JSON is dropped.
TakeSlice(p) ==
    LET Processed(cut, earliest_type, data) ==
            IF ~data.ok THEN [p |-> cut, ev |-> NoEvent]
            ELSE process_event(cut, earliest_type, data.v)
        Slice(earliest_pos, json_end) ==
            Processed([p EXCEPT !.buffer = SubSeq(p.buffer, json_end + 1, Len(p.buffer))],
                      TypeAt(p.buffer, earliest_pos),
                      json_loads(SubSeq(p.buffer, earliest_pos, json_end)))
        At(earliest_pos) == Slice(earliest_pos, find_matching_brace(p.buffer, earliest_pos))
    IN At(PatternSearch(p.buffer))

\* `self.buffer += chunk.decode('utf-8', errors='ignore')`
DecodeChunk(buffer, chunk) == buffer \o Decode(chunk)

\* deduplicate_tool_calls, first loop: by_id in insertion order
RECURSIVE ById(_, _)
ById(tool_calls, by_id) ==
    IF tool_calls = <<>> THEN by_id
    ELSE LET tc == Head(tool_calls)
             at == {i \in 1..Len(by_id) : by_id[i].id = tc.id}
         IN IF ~Truthy(tc.id) THEN ById(Tail(tool_calls), by_id)
            ELSE IF at = {} THEN ById(Tail(tool_calls), Append(by_id, tc))
            ELSE LET i == CHOOSE i \in at : TRUE
                     existing_args == by_id[i].arguments
                     current_args == tc.arguments
                 IN IF current_args # <<"{", "}">>
                       /\ (existing_args = <<"{", "}">> \/ Len(current_args) > Len(existing_args))
                    THEN ById(Tail(tool_calls), [by_id EXCEPT ![i] = tc])
                    ELSE ById(Tail(tool_calls), by_id)

\* f"{func_name}-{func_args}"
DedupKey(tc) ==
    (IF Truthy(tc.name) THEN py_str(tc.name) ELSE <<>>)
    \o <<"-">> \o (IF tc.arguments # <<>> THEN tc.arguments ELSE <<"{", "}">>)

\* deduplicate_tool_calls, second loop
RECURSIVE Unique(_, _, _)
Unique(tool_calls, seen, unique) ==
    IF tool_calls = <<>> THEN unique
    ELSE IF DedupKey(Head(tool_calls)) \in seen THEN Unique(Tail(tool_calls), seen, unique)
    ELSE Unique(Tail(tool_calls), seen \cup {DedupKey(Head(tool_calls))},
                Append(unique, Head(tool_calls)))

deduplicate_tool_calls_reversed(tool_calls) ==
    LET Reversed(s) == [i \in 1..Len(s) |-> s[Len(s) + 1 - i]]
    IN Unique(Reversed(ById(tool_calls, <<>>)
                       \o SelectSeq(tool_calls, LAMBDA tc : ~Truthy(tc.id))), {}, <<>>)

deduplicate_tool_calls(tool_calls) ==
    Unique(ById(tool_calls, <<>>) \o SelectSeq(tool_calls, LAMBDA tc : ~Truthy(tc.id)), {}, <<>>)

\* get_tool_calls
get_tool_calls(p) == deduplicate_tool_calls(finalize_tool_call(p).tool_calls)

Quoted(s) == <<"\"">> \o s \o <<"\"">>

\* The JSON text {"k1":v1}
Json1(k1, v1) == PatternOf(k1) \o v1 \o <<"}">>

\* The JSON text {"k1":v1,"k2":v2}
Json2(k1, v1, k2, v2) ==
    PatternOf(k1) \o v1 \o <<",">> \o Quoted(Chars(k2)) \o <<":">> \o v2 \o <<"}">>

\* The JSON text {"k1":v1,"k2":v2,"k3":v3}
Json3(k1, v1, k2, v2, k3, v3) ==
    PatternOf(k1) \o v1 \o <<",">> \o Quoted(Chars(k2)) \o <<":">> \o v2
    \o <<",">> \o Quoted(Chars(k3)) \o <<":">> \o v3 \o <<"}">>

TrueText == <<"t", "r", "u", "e">>

\* A tool call whose start event carries the complete input {"a":1} and whose
\* input event repeats it
DoubledInput ==
    Json3("name", Quoted(<<"f">>), "toolUseId", Quoted(<<"t">>),
          "input", Quoted(<<"{", "\\", "\"", "a", "\\", "\"", ":", "1", "}">>))
    \o Json1("input", Quoted(<<"{", "\\", "\"", "a", "\\", "\"", ":", "1", "}">>))
    \o Json1("stop", TrueText)

\* An input and a stop event with no tool call in flight, then two tool calls,
\* the first closed by the start of the second
InputBeforeStart ==
    Json1("input", Quoted(<<"z">>)) \o Json1("stop", TrueText)
    \o Json2("name", Quoted(<<"f">>), "toolUseId", Quoted(<<"t">>))
    \o Json1("input", Quoted(<<"1">>)) \o Json1("input", Quoted(<<"2">>))
    \o Json2("name", Quoted(<<"h">>), "toolUseId", Quoted(<<"u">>))
    \o Json1("stop", TrueText)

\* Content events with an empty followupPrompt, with a followupPrompt, with an
\* empty text, and a repeated text
FollowupContents ==
    Json2("content", Quoted(<<"a">>), "followupPrompt", Quoted(<<>>))
    \o Json2("content", Quoted(<<"d">>), "followupPrompt", Quoted(<<"y">>))
    \o Json1("content", Quoted(<<>>))
    \o Json1("content", Quoted(<<"a">>))

\* A brace-balanced slice that is not JSON and holds a well-formed content event
NestedEvent ==
    PatternOf("content") \o <<"x">> \o Json1("content", Quoted(<<"c">>)) \o <<"}">>

\* The upstream byte sequences of the model; "#" is a byte of the binary
\* framing between two events.
Streams ==
    { DoubledInput, InputBeforeStart, FollowupContents, NestedEvent, \* a content event with a two-byte character
      <<"#">> \o Json1("content", <<"\"", "xC3", "xA9", "\"">>) \o <<"#">>,
      \* a repeated content event, a brace inside a string
      Json1("content", Quoted(<<"a", "}">>)) \o Json1("content", Quoted(<<"a", "}">>))
        \o <<"#">> \o Json1("content", Quoted(<<"b">>)),
      \* a tool call whose input arrives in two fragments: {"a": and 1}
      Json2("name", Quoted(<<"f">>), "toolUseId", Quoted(<<"t">>))
        \o Json1("input", Quoted(<<"{", "\\", "\"", "a", "\\", "\"", ":">>))
        \o Json1("input", Quoted(<<"1", "}">>)) \o Json1("stop", TrueText),
      \* a tool call whose input is the fragment 5
      Json3("name", Quoted(<<"f">>), "toolUseId", Quoted(<<"t">>), "input", Quoted(<<"5">>))
        \o Json1("stop", TrueText),
      \* a tool call with an object input and stop in the start event, then usage
      Json3("name", Quoted(<<"g">>), "input", <<"{", "\"", "b", "\"", ":", "2", "}">>,
            "stop", TrueText)
        \o Json1("usage", <<"1">>),
      \* a tool call left open with the input {"a":1 and the context usage
      Json2("name", Quoted(<<"f">>), "input", Quoted(<<"{", "\\", "\"", "a", "\\", "\"", ":", "1">>))
        \o Json1("contextUsagePercentage", <<"5">>),
      \* a tool call with the input {"a": closed by the next start event
      Json3("name", Quoted(<<"f">>), "toolUseId", Quoted(<<"t">>),
            "input", Quoted(<<"{", "\\", "\"", "a", "\\", "\"", ":">>))
        \o Json2("name", Quoted(<<"h">>), "toolUseId", Quoted(<<"u">>)),
      \* a slice that is not JSON, a followup prompt, a content event
      Json1("content", <<"x">>) \o Json1("followupPrompt", Quoted(<<"y">>))
        \o Json1("content", Quoted(<<"c">>)) }

\* A fresh parser and an upstream sequence, which is first fed in a single
\* call and then, to another fresh parser, chunk by chunk.
ParserInit ==
    \E R \in Streams :
        ps = [PsOff EXCEPT !.pc = "feeding", !.run = "whole", !.stream = R, !.rest = R]

\* feed(chunk) is called with the next n bytes of the upstream sequence: the
\* chunk is decoded onto the buffer.
FeedChunk(n) ==
    /\ ps.pc = "feeding"
    /\ n \in 1..Len(ps.rest)
    /\ ps.run = "whole" => n = Len(ps.rest)
    /\ ps' = [ps EXCEPT !.pc = "scan",
                        !.parser.buffer = DecodeChunk(@, SubSeq(ps.rest, 1, n)),
                        !.rest = SubSeq(ps.rest, n + 1, Len(ps.rest))]
    /\ UNCHANGED notParser

\* feed: one pass of the loop takes a slice and processes it.
FeedSlice ==
    /\ ps.pc = "scan"
    /\ HasSlice(ps.parser)
    /\ \E r \in {TakeSlice(ps.parser)} :
         ps' = [ps EXCEPT !.parser = r.p,
                          !.events = IF r.ev = NoEvent THEN @ ELSE Append(@, r.ev)]
    /\ UNCHANGED notParser

\* feed: `break`, the events are returned.
FeedReturn ==
    /\ ps.pc = "scan"
    /\ ~HasSlice(ps.parser)
    /\ ps' = [ps EXCEPT !.pc = "feeding"]
    /\ UNCHANGED notParser

\* The body has ended: get_tool_calls finalizes the open tool call and returns
\* the deduplicated list.
GetToolCalls ==
    /\ ps.pc = "feeding" /\ ps.rest = <<>>
    /\ ps' = [ps EXCEPT !.pc = IF ps.run = "whole" THEN "fed" ELSE "done",
                        !.parser = finalize_tool_call(ps.parser),
                        !.result = get_tool_calls(ps.parser)]
    /\ UNCHANGED notParser

\* The same upstream sequence for a fresh parser, now in chunks.
StartChunks ==
    /\ ps.pc = "fed"
    /\ ps' = [ps EXCEPT !.pc = "feeding", !.run = "chunks", !.rest = ps.stream,
                        !.parser = FreshParser, !.events = <<>>, !.result = <<>>,
                        !.whole = [events |-> ps.events, result |-> ps.result]]
    /\ UNCHANGED notParser

ParserNext ==
    \/ \E n \in 1..Len(ps.rest) : FeedChunk(n)
    \/ FeedSlice
    \/ FeedReturn
    \/ GetToolCalls
    \/ StartChunks

InitParser == ParserInit /\ AuthOff /\ HttpOff /\ StreamOff /\ ConvOff /\ ThinkingOff /\ RouteOff /\ DedupOff /\ CredsOff /\ CacheOff /\ UsageOff

SpecParser == InitParser /\ [][ParserNext]_vars

(* C4: whatever the split of the upstream byte sequence into chunks, the
   events emitted and the final tool-call list are those of feeding the
   sequence in a single call. *)
C4_ChunkInvariance ==
    ps.pc = "done" => /\ ps.events = ps.whole.events
                      /\ ps.result = ps.whole.result

(* C5: the arguments of every finalized tool call parse as a JSON object. *)
C5_ArgumentsAreObjects ==
    \A i \in 1..Len(ps.parser.tool_calls) :
        IsObject(json_loads(ps.parser.tool_calls[i].arguments))

\* The slice the next pass of feed's loop takes from the buffer: its event
\* type, what json.loads makes of it, and where it starts and ends.
NextSlice(buffer) ==
    LET Slice(earliest_pos, json_end) ==
            [type |-> TypeAt(buffer, earliest_pos),
             data |-> json_loads(SubSeq(buffer, earliest_pos, json_end)),
             start |-> earliest_pos, end |-> json_end]
        At(earliest_pos) == Slice(earliest_pos, find_matching_brace(buffer, earliest_pos))
    IN At(PatternSearch(buffer))

\* A pass of feed's loop is about to take a slice.
AtSlice == ps.pc = "scan" /\ HasSlice(ps.parser)

(* C27: once the arguments buffer of the tool call in flight parses as valid
   JSON, an input event leaves the call and its buffer unchanged; a start event
   with the complete input {"a":1} followed by an input event that repeats it
   is finalized with a single copy of the arguments. *)
C27_ExtraInputDropped ==
    [][/\ AtSlice =>
            LET Dropped(sl, tc) ==
                    (/\ sl.data.ok /\ sl.type = "tool_input"
                     /\ tc.present
                     /\ StripWs(tc.arguments) # <<>> /\ json_loads(tc.arguments).ok)
                    => /\ ps'.parser.current_tool_call = tc
                       /\ ps'.parser.tool_calls = ps.parser.tool_calls
                       /\ ps'.events = ps.events
            IN Dropped(NextSlice(ps.parser.buffer), ps.parser.current_tool_call)
       /\ (ps'.stream = DoubledInput /\ ps'.pc \in {"fed", "done"}) =>
            /\ Len(ps'.parser.tool_calls) = 1
            /\ ps'.parser.tool_calls[1].arguments = <<"{", "\"", "a", "\"", ":", " ", "1", "}">>
            /\ Len(ps'.result) = 1
            /\ ps'.result[1].arguments = <<"{", "\"", "a", "\"", ":", " ", "1", "}">>]_vars

\* The repeated input has been fed in chunks and dropped; the call is
\* finalized with one copy.
C27_Witness ==
    /\ ps.stream = DoubledInput /\ ps.pc = "done" /\ ps.run = "chunks"
    /\ Len(ps.result) = 1
    /\ ps.result[1].arguments = <<"{", "\"", "a", "\"", ":", " ", "1", "}">>
    /\ ps.result[1].name = StrValue(<<"f">>)

(* C28: the completed list only grows at its end; a name event that arrives
   while a call is in flight first finalizes that call and appends it, so the
   completed calls are in the order of their name events; the arguments of the
   call in flight change only by appending until it is finalized; an input or
   a stop event with no call in flight changes nothing. *)
C28_OneCallInFlight ==
    [][/\ AtSlice =>
            LET IsPrefix(a, b) == Len(a) <= Len(b) /\ SubSeq(b, 1, Len(a)) = a
                Closed(tc) == [tc EXCEPT !.arguments = FinalArguments(@)]
                \* the call that the name event starts: in flight, or completed
                \* at once when the event carries stop
                Started(q) ==
                    IF q.current_tool_call.present THEN q.current_tool_call
                    ELSE q.tool_calls[Len(q.tool_calls)]
                Step(sl, p, q) ==
                    /\ IsPrefix(p.tool_calls, q.tool_calls)
                    /\ (sl.data.ok /\ sl.type = "tool_start") =>
                          /\ Len(q.tool_calls) > 0 \/ q.current_tool_call.present
                          /\ Started(q).name = Get(sl.data.v, Chars("name"), StrValue(<<>>))
                          /\ p.current_tool_call.present =>
                                /\ Len(q.tool_calls) > Len(p.tool_calls)
                                /\ q.tool_calls[Len(p.tool_calls) + 1] = Closed(p.current_tool_call)
                          /\ Len(q.tool_calls) = Len(p.tool_calls)
                                                 + (IF p.current_tool_call.present THEN 1 ELSE 0)
                                                 + (IF q.current_tool_call.present THEN 0 ELSE 1)
                    /\ (p.current_tool_call.present /\ ~(sl.data.ok /\ sl.type = "tool_start")) =>
                          \/ /\ q.current_tool_call.present
                             /\ q.current_tool_call.id = p.current_tool_call.id
                             /\ q.current_tool_call.name = p.current_tool_call.name
                             /\ IsPrefix(p.current_tool_call.arguments, q.current_tool_call.arguments)
                             /\ q.tool_calls = p.tool_calls
                          \/ /\ ~q.current_tool_call.present
                             /\ q.tool_calls = Append(p.tool_calls, Closed(p.current_tool_call))
                    /\ (~p.current_tool_call.present /\ sl.data.ok
                        /\ sl.type \in {"tool_input", "tool_stop"}) =>
                          /\ q = [p EXCEPT !.buffer = q.buffer]
                          /\ ps'.events = ps.events
            IN Step(NextSlice(ps.parser.buffer), ps.parser, ps'.parser)
       /\ (ps'.stream = InputBeforeStart /\ ps'.pc \in {"fed", "done"}) =>
            /\ Len(ps'.parser.tool_calls) = 2
            /\ ps'.parser.tool_calls[1].name = StrValue(<<"f">>)
            /\ ps'.parser.tool_calls[2].name = StrValue(<<"h">>)]_vars

\* Fed in chunks: the input and the stop event before the first name event
\* left nothing, the call f was closed by the name event of h with the
\* arguments 1 (the fragment 2 came after valid JSON), and h was closed by its
\* stop event.
C28_Witness ==
    /\ ps.stream = InputBeforeStart /\ ps.pc = "done" /\ ps.run = "chunks"
    /\ Len(ps.parser.tool_calls) = 2
    /\ ps.parser.tool_calls[1].name = StrValue(<<"f">>)
    /\ ps.parser.tool_calls[1].id = StrValue(<<"t">>)
    /\ ps.parser.tool_calls[1].arguments = <<"1">>
    /\ ps.parser.tool_calls[2].name = StrValue(<<"h">>)
    /\ ps.events = <<>>

\* The text of the last content event among events, None when there is none
LastText(events) ==
    LET At(idx) == IF idx = {} THEN None
                   ELSE events[CHOOSE i \in idx : \A j \in idx : j <= i].data
    IN At({i \in 1..Len(events) : events[i].type = "content"})

\* This step of the parser appends a content event to the events.
NewContent ==
    /\ Len(ps'.events) = Len(ps.events) + 1
    /\ ps'.events[Len(ps'.events)].type = "content"

(* C29: no content event is emitted with an empty text, for an object that
   has a followupPrompt member, or with the text of the content event before
   it; last_content is the text of the last content event emitted. *)
C29_ContentEvents ==
    [][/\ ps'.parser.last_content = LastText(ps'.events)
       /\ (AtSlice /\ NewContent) =>
            LET Emitted(sl, text) ==
                    /\ Truthy(text)
                    /\ text # LastText(ps.events)
                    /\ \A i \in 1..Len(sl.data.v.m) :
                          sl.data.v.m[i].key # Chars("followupPrompt")
            IN Emitted(NextSlice(ps.parser.buffer), ps'.events[Len(ps'.events)].data)]_vars

(* C29, amended: a content event is emitted exactly for a content object whose
   text is non-empty and differs from last_content and whose followupPrompt is
   absent or falsy (empty, null, false, 0); last_content is the text of the
   last content event emitted. *)
C29_ContentUnlessFollowup ==
    [][/\ ps'.parser.last_content = LastText(ps'.events)
       /\ AtSlice =>
            LET Wanted(sl, content) ==
                    /\ sl.data.ok /\ sl.type = "content"
                    /\ Truthy(content)
                    /\ content # LastText(ps.events)
                    /\ ~Truthy(Get(sl.data.v, Chars("followupPrompt"), None))
                Emitted(sl) ==
                    IF Wanted(sl, Get(sl.data.v, Chars("content"), StrValue(<<>>)))
                    THEN ps'.events = Append(ps.events,
                                             Event("content", Get(sl.data.v, Chars("content"),
                                                                  StrValue(<<>>))))
                    ELSE ~NewContent
            IN Emitted(NextSlice(ps.parser.buffer))]_vars

\* Fed in chunks: the text a was emitted from an object with an empty
\* followupPrompt; the text d with a followupPrompt, the empty text and the
\* repeated a were not.
C29_Witness ==
    /\ ps.stream = FollowupContents /\ ps.pc = "done" /\ ps.run = "chunks"
    /\ ps.events = <<Event("content", StrValue(<<"a">>))>>
    /\ ps.parser.last_content = StrValue(<<"a">>)

(* C30: when the slice taken from the buffer is not JSON, no event is emitted
   and the scan resumes one byte past the opening brace of the slice, so that
   the content event inside the slice {"content":x{"content":"c"}} is
   emitted. *)
C30_ResumeInsideBadSlice ==
    [][/\ AtSlice =>
            LET Resumed(sl) ==
                    ~sl.data.ok =>
                        /\ ps'.events = ps.events
                        /\ ps'.parser.buffer =
                             SubSeq(ps.parser.buffer, sl.start + 1, Len(ps.parser.buffer))
            IN Resumed(NextSlice(ps.parser.buffer))
       /\ (ps'.stream = NestedEvent /\ ps'.pc \in {"fed", "done"}) =>
            ps'.events = <<Event("content", StrValue(<<"c">>))>>]_vars

(***************************************************************************)
(*          verify_api_key / chat_completions  (routes/chat.py)            *)
(*                                                                         *)
(* A header value is a sequence of symbols: "Bearer " is the prefix the    *)
(* route strips, ":" the colon, "U+E9" a character that is not ASCII (the  *)
(* server decodes header bytes as latin-1), "k", "x" and "u" other         *)
(* characters.  The empty sequence is a missing header.                    *)
(***************************************************************************)

Schemes == {<<>>, <<"Bearer ">>}

\* What follows the scheme: nothing, a key, a key and a refresh token, with
\* the right key "k" or another one, with and without a second colon.
Credentials ==
    {<<>>, <<"k">>, <<"x">>, <<"k", "k">>, <<"U+E9">>, <<":">>,
     <<"k", ":">>, <<"k", ":", "u">>, <<"x", ":", "u">>, <<":", "k">>,
     <<"k", ":", "k">>, <<"k", ":", "u", ":", "u">>, <<"k", "U+E9", ":", "u">>}

Headers == {s \o c : s \in Schemes, c \in Credentials}

\* settings.proxy_api_key: any string, also one with a colon in it
ProxyKeys == {<<"k">>, <<"k", ":", "k">>}

\* settings.refresh_token, settings.profile_arn
SettingsRefreshToken == <<"r">>

SettingsProfileArn == <<"arn">>

\* The manager of app.state, made at startup.
SharedManager(credsFile) ==
    Manager(NoToken, SettingsRefreshToken, NoExpiry, SettingsProfileArn, credsFile)

NewManagerWithFile(refresh_token) ==
    Manager(NoToken, refresh_token, NoExpiry, SettingsProfileArn, TRUE)

\* `KiroAuthManager(refresh_token=refresh_token, region=..., profile_arn=...)`:
\* no creds_file
NewManager(refresh_token) ==
    Manager(NoToken, refresh_token, NoExpiry, SettingsProfileArn, FALSE)

\* secrets.compare_digest(a, b) of two str: TypeError when one of them has a
\* character that is not ASCII
compare_digest(a, b) ==
    IF \E i \in 1..Len(a) : a[i] = "U+E9" THEN "TypeError"
    ELSE IF \E i \in 1..Len(b) : b[i] = "U+E9" THEN "TypeError"
    ELSE IF a = b THEN "equal" ELSE "differ"

\* What verify_api_key does: it raises (HTTPException 401, or the TypeError
\* of compare_digest) or returns a manager.
Verdict(raises, manager, refresh_token) ==
    [raises |-> raises, manager |-> manager, refresh_token |-> refresh_token]

\* The token of a header: what follows "Bearer ", or the raw header.
TokenOf(auth_header) ==
    IF auth_header # <<>> /\ auth_header[1] = "Bearer " THEN Tail(auth_header) ELSE auth_header

verify_api_key(auth_header, proxy_api_key) ==
    LET Compared(digest, manager, refresh_token) ==
            CASE digest = "TypeError" -> Verdict("TypeError", "none", <<>>)
              [] digest = "differ"    -> Verdict("HTTPException", "none", <<>>)
              [] digest = "equal"     -> Verdict("none", manager, refresh_token)
        \* token.split(':', 1) at the first colon
        Split(token, colon) ==
            Compared(compare_digest(SubSeq(token, 1, colon - 1), proxy_api_key),
                     "own", SubSeq(token, colon + 1, Len(token)))
        Checked(token) ==
            IF \E i \in 1..Len(token) : token[i] = ":"
            THEN Split(token, CHOOSE i \in 1..Len(token) :
                                /\ token[i] = ":"
                                /\ \A j \in 1..(i - 1) : token[j] # ":")
            ELSE Compared(compare_digest(token, proxy_api_key), "shared", <<>>)
    IN IF auth_header = <<>> THEN Verdict("HTTPException", "none", <<>>)
       ELSE Checked(TokenOf(auth_header))

\* MODEL_MAPPING has the external names, its values are the internal ids.
ModelNames == {"external", "internal", "unknown"}

ModelIsSupportedAny(model) == model \in ModelNames

\* get_internal_model_id: FALSE for ValueError
ModelIsSupported(model) == model \in {"external", "internal"}

\* The requests of the route's model: one or two messages.
MaxRouteMsgs == 2

RouteRequests == UNION {RequestsOfLength(n) : n \in 1..MaxRouteMsgs}

\* build_kiro_payload raises ValueError: no message is left after merging, or
\* the model is not supported.
PayloadIsRejected(messages, model) ==
    \/ merge_adjacent_messages(NonSystemMessages(messages)) = <<>>
    \/ ~ModelIsSupported(model)

\* _process_refresh_response on manager m: a new access token and expiry;
\* rotated: the response carries a refreshToken and a profileArn too.
Refreshed(m, rotated) ==
    [m EXCEPT !.accessToken = @ + 1,
              !.expiresAt = @ + 1,
              !.refreshToken = IF rotated THEN <<"rotated">> ELSE @,
              !.profileArn = IF rotated THEN <<"arn2">> ELSE @]

\* settings.first_token_max_retries, settings.max_retries
first_token_max_retries == 3

max_retries == 3

\* A request arrives: its Authorization header; the gateway's proxy key and
\* whether the shared manager has a credentials file.
RouteInit ==
    \E h \in Headers, k \in ProxyKeys, f \in BOOLEAN :
        rt = [RtOff EXCEPT !.pc = "verify", !.header = h, !.key = k,
                           !.shared = SharedManager(f)]

\* verify_api_key raises: 401 for the HTTPException; the TypeError is not
\* handled, the server answers 500.
RouteRejected ==
    /\ rt.pc = "verify"
    /\ \E v \in {verify_api_key(rt.header, rt.key)} :
         /\ v.raises # "none"
         /\ rt' = [rt EXCEPT !.pc = "answered", !.cause = "verify",
                             !.status = IF v.raises = "HTTPException" THEN 401 ELSE 500]
    /\ UNCHANGED <<rq, st, notRoute>>

\* verify_api_key returns a manager: chat_completions is entered with the
\* parsed body.
RouteAuthorized ==
    /\ rt.pc = "verify"
    /\ \E v \in {verify_api_key(rt.header, rt.key)} :
         /\ v.raises = "none"
         /\ \E messages \in RouteRequests, model \in ModelNames, stream \in BOOLEAN :
              rt' = [rt EXCEPT !.pc = "build", !.header = <<>>, !.key = <<>>,
                               !.manager = v.manager,
                               !.own = IF v.manager = "own" THEN NewManager(v.refresh_token)
                                       ELSE NoManager,
                               !.messages = messages, !.model = model, !.stream = stream]
    /\ UNCHANGED <<rq, st, notRoute>>

\* `except ValueError as e: raise HTTPException(status_code=400, ...)`
RouteBadRequest ==
    /\ rt.pc = "build"
    /\ PayloadIsRejected(rt.messages, rt.model)
    /\ rt' = [rt EXCEPT !.pc = "answered", !.cause = "build", !.status = 400]
    /\ UNCHANGED <<rq, st, notRoute>>

\* The payload is built: `request_with_retry("POST", url, kiro_payload,
\* stream=True, ...)` is called, whatever request_data.stream is.
RouteCall ==
    /\ rt.pc = "build"
    /\ ~PayloadIsRejected(rt.messages, rt.model)
    /\ rt' = [rt EXCEPT !.pc = "upstream", !.called = TRUE, !.messages = <<>>,
                        !.model = "none"]
    /\ rq' = [RqOff EXCEPT !.pc = "loop", !.stream = TRUE, !.maxRetries = max_retries,
                           !.firstTokenMaxRetries = first_token_max_retries,
                           !.mgrToken = 1]
    /\ UNCHANGED <<st, notRoute>>

\* What the call left behind.  The manager of the request was refreshed when
\* it has had more than its first token (rq.mgrToken); a refresh writes the
\* credentials file only for a manager with a creds_file
\* (_save_credentials_to_file).
AfterCall(r, rotated) ==
    LET Left(renewed) ==
            [r EXCEPT !.exhausted = rq.retryableOnly,
                      !.refreshFailed = rq.authFailed,
                      !.shared = IF renewed /\ r.manager = "shared"
                                 THEN Refreshed(@, rotated) ELSE @,
                      !.own = IF renewed /\ r.manager = "own"
                              THEN Refreshed(@, rotated) ELSE @,
                      !.fileWritten = /\ renewed
                                      /\ IF r.manager = "own" THEN r.own.credsFile
                                         ELSE r.shared.credsFile]
    IN Left(rq.mgrToken > 1)

\* request_with_retry raised, or returned a response that is not a 200: the
\* HTTPException is raised again, another exception becomes a 500, the
\* response's status is passed on.
RouteFails(rotated) ==
    /\ rt.pc = "upstream" /\ HttpEnded
    /\ ~(rq.kind = "response" /\ rq.result = 200)
    /\ rt' = [AfterCall(rt, rotated) EXCEPT
                !.pc = "answered",
                !.cause = rq.kind,
                !.status = IF rq.kind = "auth_error" THEN 500 ELSE rq.result]
    /\ rq' = RqOff
    /\ UNCHANGED <<st, notRoute>>

\* A 200: `StreamingResponse(stream_wrapper(), ...)` is returned, so that the
\* status 200 is sent before the generator runs, or collect_stream_response
\* is awaited.
RouteBody(rotated) ==
    /\ rt.pc = "upstream" /\ HttpEnded
    /\ rq.kind = "response" /\ rq.result = 200
    /\ rt' = [AfterCall(rt, rotated) EXCEPT
                !.pc = "body", !.status = IF rt.stream THEN 200 ELSE 0]
    /\ rq' = RqOff
    /\ st' = [StOff EXCEPT !.mode = IF rt.stream THEN "stream" ELSE "collect",
                           !.pc = IF rt.stream THEN "first" ELSE "collect"]
    /\ UNCHANGED notRoute

\* The emitter has exited.  A streaming answer keeps the status it began
\* with; collect_stream_response returns (200), raises (500), or the request
\* task was cancelled (no answer).
RouteBodyEnded ==
    /\ rt.pc = "body" /\ StreamExited
    /\ rt' = [rt EXCEPT !.pc = "answered",
                        !.cause = IF st.err # "none" THEN st.err ELSE st.pc,
                        !.status = IF rt.stream THEN @
                                   ELSE IF st.pc = "done" THEN 200
                                   ELSE IF st.pc = "raised" THEN 500
                                   ELSE 0]
    /\ st' = StOff
    /\ UNCHANGED <<rq, notRoute>>

\* The longest upstream body of the route's model, in chunks.
MaxBodyChunks == 1

RouteNext ==
    \/ RouteRejected
    \/ RouteAuthorized
    \/ RouteBadRequest
    \/ RouteCall
    \/ \E rotated \in BOOLEAN : RouteFails(rotated)
    \/ \E rotated \in BOOLEAN : RouteBody(rotated)
    \/ RouteBodyEnded
    \/ HttpNext
    \/ StreamNext /\ st'.chunks <= MaxBodyChunks

InitRoute == RouteInit /\ AuthOff /\ HttpOff /\ StreamOff /\ ConvOff /\ ParserOff /\ ThinkingOff /\ DedupOff /\ CredsOff /\ CacheOff /\ UsageOff

SpecRoute == InitRoute /\ [][RouteNext]_vars

RouteAnswered == rt.pc = "answered"

(* C12: a request whose upstream attempts all end in retryable failures is
   answered with 502 when it has stream=false and with 504 when it has
   stream=true. *)
C12_ExhaustedStatus ==
    (RouteAnswered /\ rt.cause = "http_exception" /\ rt.exhausted)
    => rt.status = (IF rt.stream THEN 504 ELSE 502)

(* C13: a streaming request whose upstream answered 200 and whose body then
   met the first-token timeout, or more than max_consecutive_timeouts read
   timeouts in a row, is answered with status 504. *)
C13_TimeoutStatus ==
    (RouteAnswered /\ rt.stream /\ rt.cause \in {"first_token_timeout", "stream_read_timeout"})
    => rt.status = 504

(* C14: a request during which the auth manager failed to provide a token
   (its refresh raised) is answered with 502. *)
C14_RefreshFailureStatus ==
    (RouteAnswered /\ rt.refreshFailed) => rt.status = 502

\* The tokens the gate is said to accept: proxyApiKey, or proxyApiKey, a
\* colon and a refresh token.
Accepted(auth_header, proxy_api_key) ==
    /\ auth_header # <<>>
    /\ \/ TokenOf(auth_header) = proxy_api_key
       \/ StartsWith(TokenOf(auth_header), proxy_api_key \o <<":">>)

(* C15: verify_api_key returns a manager only for a token that is
   proxyApiKey or proxyApiKey:refreshToken; for every other header, a missing
   one too, the answer is 401, no manager is constructed, the shared manager
   is not refreshed and request_with_retry is not called. *)
C15_Gate ==
    [][(rt.pc = "verify" /\ ~Accepted(rt.header, rt.key))
       => /\ rt'.pc = "answered" /\ rt'.status = 401
          /\ rt'.manager = "none" /\ rt'.own = NoManager
          /\ rt'.shared = rt.shared /\ ~rt'.fileWritten
          /\ ~rt'.called /\ rq' = RqOff]_vars

(* C16: a request authenticated as proxyKey:refreshToken has a manager of its
   own, constructed without token; whatever is refreshed for it, the shared
   manager keeps its accessToken, refreshToken, expiresAt and profileArn and
   the credentials file is not written. *)
C16_Isolation ==
    rt.manager = "own"
    => /\ rt.shared \in {SharedManager(f) : f \in BOOLEAN}
       /\ ~rt.fileWritten
       /\ rt.own.profileArn \in {SettingsProfileArn, <<"arn2">>}
       /\ rt.pc = "build" => (rt.own.accessToken = NoToken /\ rt.own.expiresAt = NoExpiry)

\* A request with a token "k:u" whose manager was refreshed, with a rotated
\* refresh token, while the shared manager has a credentials file.
C16_Witness ==
    /\ RouteAnswered /\ rt.manager = "own" /\ rt.status = 200
    /\ rt.own.accessToken # NoToken /\ rt.own.refreshToken = <<"rotated">>
    /\ rt.shared = SharedManager(TRUE)
    /\ ~rt.fileWritten

(* C19: a request with no message other than system messages, or with a model
   that is neither in MODEL_MAPPING nor one of its values, is answered 400;
   request_with_retry is not called and no manager is refreshed. *)
C19_BadRequest ==
    [][(/\ rt.pc = "build"
        /\ \/ merge_adjacent_messages(NonSystemMessages(rt.messages)) = <<>>
           \/ rt.model \notin {"external", "internal"})
       => /\ rt'.pc = "answered" /\ rt'.status = 400
          /\ ~rt'.called /\ rq' = RqOff /\ rq = RqOff
          /\ rt'.shared = rt.shared /\ rt'.own = rt.own
          /\ rt'.shared.accessToken = NoToken
          /\ rt'.own.accessToken = NoToken
          /\ ~rt'.fileWritten]_vars

\* A 400 for a request of two system messages with a supported model.
C19_Witness ==
    /\ RouteAnswered /\ rt.status = 400 /\ rt.cause = "build" /\ ~rt.called
    /\ rq = RqOff
    /\ Len(rt.messages) = 2 /\ \A i \in 1..2 : rt.messages[i].role = "system"
    /\ rt.model = "external"

(***************************************************************************)
(*                ThinkingParser  (libs/thinking_parser.py)                *)
(*                                                                         *)
(* A text is a sequence of characters, " " the only whitespace; None and   *)
(* the empty string are both the empty sequence.  Two tags, "<t>" and      *)
(* "<r>", stand for the four of FAKE_REASONING_OPEN_TAGS.                  *)
(***************************************************************************)

FAKE_REASONING_OPEN_TAGS == << <<"<", "t", ">">>, <<"<", "r", ">">> >>

FAKE_REASONING_INITIAL_BUFFER_SIZE == 20

\* self.max_tag_length = max(len(tag) for tag in self.open_tags) * 2
max_tag_length ==
    2 * (CHOOSE n \in {Len(FAKE_REASONING_OPEN_TAGS[i]) : i \in DOMAIN FAKE_REASONING_OPEN_TAGS} :
           \A i \in DOMAIN FAKE_REASONING_OPEN_TAGS : Len(FAKE_REASONING_OPEN_TAGS[i]) <= n)

\* str.lstrip()
RECURSIVE lstrip(_)
lstrip(s) == IF s # <<>> /\ Head(s) = " " THEN lstrip(Tail(s)) ELSE s

\* str.find(sub), counted from 1; 0 when sub does not occur
find(s, sub) ==
    LET Places == {i \in 1..(Len(s) - Len(sub) + 1) : SubSeq(s, i, i + Len(sub) - 1) = sub}
    IN IF Places = {} THEN 0 ELSE CHOOSE i \in Places : \A j \in Places : i <= j

\* f"</{tag[1:]}"
CloseTagOf(tag) == <<"<", "/">> \o Tail(tag)

ThinkingParseResult(thinking_content, regular_content, is_first, is_last, state_changed) ==
    [thinking_content |-> thinking_content, regular_content |-> regular_content,
     is_first_thinking_chunk |-> is_first, is_last_thinking_chunk |-> is_last,
     state_changed |-> state_changed]

EmptyResult == ThinkingParseResult(<<>>, <<>>, FALSE, FALSE, FALSE)

\* ThinkingParser.__init__
NewThinkingParser ==
    [state |-> "PRE_CONTENT", initial_buffer |-> <<>>, thinking_buffer |-> <<>>,
     open_tag |-> <<>>, close_tag |-> <<>>, is_first_thinking_chunk |-> TRUE,
     thinking_block_found |-> FALSE]

\* What a method leaves: the parser and the result it returns.
Fed(parser, result) == [parser |-> parser, result |-> result]

\* A parser that, while the close tag has not come, returns the whole buffer
process_thinking_buffer_keeps_nothing(p) ==
    LET Closed(idx) ==
            Fed([p EXCEPT !.state = "STREAMING", !.thinking_buffer = <<>>,
                          !.is_first_thinking_chunk = @ /\ idx = 1],
                ThinkingParseResult(
                    SubSeq(p.thinking_buffer, 1, idx - 1),
                    lstrip(SubSeq(p.thinking_buffer, idx + Len(p.close_tag),
                                  Len(p.thinking_buffer))),
                    idx > 1 /\ p.is_first_thinking_chunk, TRUE, TRUE))
        Open(n) ==
            IF n > max_tag_length
            THEN Fed([p EXCEPT !.thinking_buffer = <<>>, !.is_first_thinking_chunk = FALSE],
                     ThinkingParseResult(p.thinking_buffer, <<>>, p.is_first_thinking_chunk,
                                         FALSE, FALSE))
            ELSE Fed(p, EmptyResult)
        At(idx) == IF idx # 0 THEN Closed(idx) ELSE Open(Len(p.thinking_buffer))
    IN IF p.close_tag = <<>> THEN Fed(p, EmptyResult)
       ELSE At(find(p.thinking_buffer, p.close_tag))

process_thinking_buffer(p) ==
    LET \* the close tag is at idx: what precedes it is thinking content, what
        \* follows it, left-stripped, is regular content
        Closed(idx) ==
            Fed([p EXCEPT !.state = "STREAMING", !.thinking_buffer = <<>>,
                          !.is_first_thinking_chunk = @ /\ idx = 1],
                ThinkingParseResult(
                    SubSeq(p.thinking_buffer, 1, idx - 1),
                    lstrip(SubSeq(p.thinking_buffer, idx + Len(p.close_tag),
                                  Len(p.thinking_buffer))),
                    idx > 1 /\ p.is_first_thinking_chunk, TRUE, TRUE))
        \* no close tag yet: all but the last max_tag_length characters are sent
        Open(n) ==
            IF n > max_tag_length
            THEN Fed([p EXCEPT !.thinking_buffer = SubSeq(@, n - max_tag_length + 1, n),
                               !.is_first_thinking_chunk = FALSE],
                     ThinkingParseResult(SubSeq(p.thinking_buffer, 1, n - max_tag_length),
                                         <<>>, p.is_first_thinking_chunk, FALSE, FALSE))
            ELSE Fed(p, EmptyResult)
        At(idx) == IF idx # 0 THEN Closed(idx) ELSE Open(Len(p.thinking_buffer))
    IN IF p.close_tag = <<>> THEN Fed(p, EmptyResult)
       ELSE At(find(p.thinking_buffer, p.close_tag))

\* A parser for which every text may still become an open tag
could_be_tag_prefix_always(text) == TRUE

could_be_tag_prefix(text) ==
    \/ text = <<>>
    \/ \E i \in DOMAIN FAKE_REASONING_OPEN_TAGS : StartsWith(FAKE_REASONING_OPEN_TAGS[i], text)

handle_pre_content(p, content) ==
    LET \* the stripped buffer starts with tag
        Entered(stripped, tag) ==
            process_thinking_buffer(
                [p EXCEPT !.state = "IN_THINKING", !.open_tag = tag,
                          !.close_tag = CloseTagOf(tag), !.thinking_block_found = TRUE,
                          !.thinking_buffer = SubSeq(stripped, Len(tag) + 1, Len(stripped)),
                          !.initial_buffer = <<>>])
        Changed(f) == Fed(f.parser, [f.result EXCEPT !.state_changed = TRUE])
        Matching(stripped) ==
            {i \in DOMAIN FAKE_REASONING_OPEN_TAGS : StartsWith(stripped, FAKE_REASONING_OPEN_TAGS[i])}
        Handled(buffer, stripped, matching) ==
            IF matching # {}
            THEN Changed(Entered(stripped,
                     FAKE_REASONING_OPEN_TAGS[CHOOSE i \in matching : \A j \in matching : i <= j]))
            ELSE IF \E i \in DOMAIN FAKE_REASONING_OPEN_TAGS :
                      /\ StartsWith(FAKE_REASONING_OPEN_TAGS[i], stripped)
                      /\ Len(stripped) < Len(FAKE_REASONING_OPEN_TAGS[i])
            THEN Fed([p EXCEPT !.initial_buffer = buffer], EmptyResult)
            ELSE IF \/ Len(buffer) > FAKE_REASONING_INITIAL_BUFFER_SIZE
                    \/ ~could_be_tag_prefix(stripped)
            THEN Fed([p EXCEPT !.state = "STREAMING", !.initial_buffer = <<>>],
                     ThinkingParseResult(<<>>, buffer, FALSE, FALSE, TRUE))
            ELSE Fed([p EXCEPT !.initial_buffer = buffer], EmptyResult)
        Stripped(buffer, stripped) == Handled(buffer, stripped, Matching(stripped))
        Buffered(buffer) == Stripped(buffer, lstrip(buffer))
    IN Buffered(p.initial_buffer \o content)

\* A parser that looks for an open tag again in what is fed after the block
feedRestarts(p, content) ==
    IF content = <<>> THEN Fed(p, EmptyResult)
    ELSE IF p.state = "IN_THINKING"
    THEN process_thinking_buffer([p EXCEPT !.thinking_buffer = @ \o content])
    ELSE handle_pre_content([p EXCEPT !.state = "PRE_CONTENT"], content)

\* ThinkingParser.feed
feed(p, content) ==
    IF content = <<>> THEN Fed(p, EmptyResult)
    ELSE IF p.state = "PRE_CONTENT" THEN handle_pre_content(p, content)
    ELSE IF p.state = "IN_THINKING"
    THEN process_thinking_buffer([p EXCEPT !.thinking_buffer = @ \o content])
    ELSE Fed(p, ThinkingParseResult(<<>>, content, FALSE, FALSE, FALSE))

finalizeKeepsBuffer(p) ==
    Fed([p EXCEPT !.thinking_buffer = <<>>],
        IF p.thinking_buffer # <<>> /\ p.state = "IN_THINKING"
        THEN ThinkingParseResult(p.thinking_buffer, <<>>, p.is_first_thinking_chunk, TRUE, FALSE)
        ELSE ThinkingParseResult(<<>>, p.thinking_buffer, FALSE, FALSE, FALSE))

\* ThinkingParser.finalize
finalize(p) ==
    Fed([p EXCEPT !.thinking_buffer = <<>>, !.initial_buffer = <<>>],
        IF p.thinking_buffer # <<>> /\ p.state = "IN_THINKING"
        THEN ThinkingParseResult(p.thinking_buffer, p.initial_buffer,
                                 p.is_first_thinking_chunk, TRUE, FALSE)
        ELSE ThinkingParseResult(<<>>, p.thinking_buffer \o p.initial_buffer,
                                 FALSE, FALSE, FALSE))

\* The longest input of the model, in words.
MaxWords == 4

ThinkWords ==
    {<<" ">>, <<"a">>, <<"<", "t", ">">>, <<"<", "/", "t", ">">>, <<"<", "r", ">">>}

RECURSIVE TextsOfWords(_)
TextsOfWords(n) ==
    IF n = 0 THEN {<<>>}
    ELSE {t \o w : t \in TextsOfWords(n - 1), w \in ThinkWords}

\* A block behind more whitespace than FAKE_REASONING_INITIAL_BUFFER_SIZE, and
\* a block whose text is longer than max_tag_length
LongInputs ==
    { Repeat(" ", FAKE_REASONING_INITIAL_BUFFER_SIZE + 1)
        \o <<"<", "t", ">", "a", "<", "/", "t", ">", "a">>,
      <<"<", "t", ">">> \o Repeat("a", max_tag_length + 2) \o <<"<", "/", "t", ">", " ", "a">> }

ThinkInputs == UNION {TextsOfWords(n) : n \in 0..MaxWords} \cup LongInputs

\* A parser is made for a content stream.
ThinkInit ==
    \E input \in ThinkInputs :
        tp = [TpOff EXCEPT !.pc = "feeding", !.input = input, !.parser = NewThinkingParser]

\* The next n characters of the stream arrive as one piece of content and
\* are fed.  closedFrom and closedAt are the places of the stream at which
\* the feed that found the close tag started and ended.
ThinkFeed ==
    /\ tp.pc = "feeding"
    /\ \E n \in 0..(Len(tp.input) - tp.pos) :
         \E f \in {feed(tp.parser, SubSeq(tp.input, tp.pos + 1, tp.pos + n))} :
            tp' = [tp EXCEPT !.pos = @ + n, !.parser = f.parser,
                             !.regular = @ \o f.result.regular_content,
                             !.thinking = @ \o f.result.thinking_content,
                             !.closedFrom = IF f.result.is_last_thinking_chunk THEN tp.pos ELSE @,
                             !.closedAt = IF f.result.is_last_thinking_chunk THEN tp.pos + n ELSE @]
    /\ UNCHANGED notThinking

\* The stream has ended: finalize().
ThinkFinalize ==
    /\ tp.pc = "feeding"
    /\ tp.pos = Len(tp.input)
    /\ \E f \in {finalize(tp.parser)} :
         tp' = [tp EXCEPT !.pc = "finalized", !.parser = f.parser,
                          !.regular = @ \o f.result.regular_content,
                          !.thinking = @ \o f.result.thinking_content]
    /\ UNCHANGED notThinking

ThinkingNext == ThinkFeed \/ ThinkFinalize

InitThinking ==
    ThinkInit /\ AuthOff /\ HttpOff /\ StreamOff /\ ConvOff /\ ParserOff /\ RouteOff /\ DedupOff /\ CredsOff /\ CacheOff /\ UsageOff

SpecThinking == InitThinking /\ [][ThinkingNext]_vars

\* The tag of FAKE_REASONING_OPEN_TAGS that the text starts with once its
\* leading whitespace is dropped; the empty sequence when there is none.
OpeningTag(text) ==
    LET Starting == {i \in DOMAIN FAKE_REASONING_OPEN_TAGS :
                        StartsWith(lstrip(text), FAKE_REASONING_OPEN_TAGS[i])}
    IN IF Starting = {} THEN <<>> ELSE FAKE_REASONING_OPEN_TAGS[CHOOSE i \in Starting : TRUE]

\* The place of the text at which the opening tag ends.
OpenEnd(text) == Len(text) - Len(lstrip(text)) + Len(OpeningTag(text))

\* The place at which the first close tag after the opening tag ends; 0 when
\* no close tag follows.
CloseEnd(text) ==
    LET After(idx) == IF idx = 0 THEN 0
                      ELSE OpenEnd(text) + idx - 1 + Len(CloseTagOf(OpeningTag(text)))
    IN After(find(SubSeq(text, OpenEnd(text) + 1, Len(text)), CloseTagOf(OpeningTag(text))))

(* C17 as stated: the regular content of a whole stream, however it is cut
   into pieces, is the input without its first open tag ... close tag block,
   whitespace before the open tag and after the close tag kept, and is the
   input when no open tag starts it. *)
C17_InputMinusBlock ==
    tp.pc = "finalized"
    => IF OpeningTag(tp.input) = <<>> THEN tp.regular = tp.input
       ELSE CloseEnd(tp.input) # 0
            => tp.regular = SubSeq(tp.input, 1, Len(tp.input) - Len(lstrip(tp.input)))
                            \o SubSeq(tp.input, CloseEnd(tp.input) + 1, Len(tp.input))

(* C17, amended: the regular content is the input when the input, its leading
   whitespace dropped, starts with no open tag.  When it does, the leading
   whitespace is dropped; nothing is regular content when the paired close
   tag does not follow; otherwise the close tag is found by the feed that
   brings its last character, and the regular content is what follows the
   close tag, without the whitespace that follows it in the same piece. *)
C17_RegularContent ==
    tp.pc = "finalized"
    => IF OpeningTag(tp.input) = <<>> THEN tp.regular = tp.input
       ELSE IF CloseEnd(tp.input) = 0 THEN tp.regular = <<>>
       ELSE /\ tp.closedFrom < CloseEnd(tp.input) /\ CloseEnd(tp.input) <= tp.closedAt
            /\ tp.regular = lstrip(SubSeq(tp.input, CloseEnd(tp.input) + 1, tp.closedAt))
                            \o SubSeq(tp.input, tp.closedAt + 1, Len(tp.input))

\* "<t></t> a" fed as "<t></t> " and "a": the blank after the close tag is dropped.
C17_Witness ==
    /\ tp.pc = "finalized"
    /\ tp.input = <<"<", "t", ">", "<", "/", "t", ">", " ", "a">>
    /\ tp.closedAt = 8
    /\ tp.regular = <<"a">>

\* A step that feeds the next piece of the stream
IsThinkFeed == tp.pc = "feeding" /\ tp'.pc = "feeding"

(* C31: the state of the parser only moves from PRE_CONTENT to IN_THINKING
   or STREAMING and from IN_THINKING to STREAMING; in STREAMING it stays, and
   a piece fed in STREAMING is returned as regular content as it is, with no
   thinking content; the last-thinking-chunk flag is raised at most once, and
   an open tag after the block is regular content. *)
C31_StreamingAbsorbs ==
    [][/\ tp.pc = "feeding" =>
            /\ \/ tp'.parser.state = tp.parser.state
               \/ tp.parser.state = "PRE_CONTENT" /\ tp'.parser.state \in {"IN_THINKING", "STREAMING"}
               \/ tp.parser.state = "IN_THINKING" /\ tp'.parser.state = "STREAMING"
            /\ tp.parser.state = "STREAMING" =>
                  /\ tp'.parser = tp.parser
                  /\ tp'.thinking = tp.thinking
                  /\ tp'.regular = tp.regular \o SubSeq(tp.input, tp.pos + 1, tp'.pos)
                  /\ tp'.closedAt = tp.closedAt
            /\ tp.closedAt # 0 => tp.parser.state = "STREAMING"
       /\ (tp'.pc = "finalized"
           /\ tp'.input = <<"<", "t", ">", "a", "<", "/", "t", ">", "<", "r", ">">>) =>
            tp'.thinking = <<"a">> /\ tp'.regular = <<"<", "r", ">">>]_vars

\* "<t>a</t><r>" fed as "<t>a</t>" and "<r>": the second open tag was fed in
\* STREAMING and is regular content.
C31_Witness ==
    /\ tp.pc = "finalized"
    /\ tp.input = <<"<", "t", ">", "a", "<", "/", "t", ">", "<", "r", ">">>
    /\ tp.closedAt = 8
    /\ tp.parser.state = "STREAMING"
    /\ tp.thinking = <<"a">> /\ tp.regular = <<"<", "r", ">">>

\* The initial buffer once the piece that this step feeds is added to it
PreBuffer == tp.parser.initial_buffer \o SubSeq(tp.input, tp.pos + 1, tp'.pos)

\* A step that feeds a piece with something in it to a parser in PRE_CONTENT
\* whose buffer then does not start with an open tag
IsPreFeed ==
    /\ IsThinkFeed /\ tp'.pos > tp.pos
    /\ tp.parser.state = "PRE_CONTENT"
    /\ OpeningTag(PreBuffer) = <<>>

\* What the step does when the parser gives up on a block, and when it goes
\* on buffering
PreFeedGivesUp(givesUp) ==
    IF givesUp
    THEN /\ tp'.parser.state = "STREAMING"
         /\ tp'.parser.initial_buffer = <<>>
         /\ tp'.regular = tp.regular \o PreBuffer
    ELSE /\ tp'.parser.state = "PRE_CONTENT"
         /\ tp'.parser.initial_buffer = PreBuffer
         /\ tp'.regular = tp.regular

(* C32: in PRE_CONTENT the parser moves to STREAMING and flushes its buffer
   exactly when the left-trimmed buffer is not a prefix of an open tag and is
   longer than FAKE_REASONING_INITIAL_BUFFER_SIZE; otherwise it goes on
   buffering, or enters the block when the buffer starts with an open tag. *)
C32_GivesUpWhenLong ==
    [][/\ IsPreFeed =>
            PreFeedGivesUp(
                /\ \A i \in DOMAIN FAKE_REASONING_OPEN_TAGS :
                      ~StartsWith(FAKE_REASONING_OPEN_TAGS[i], lstrip(PreBuffer))
                /\ Len(lstrip(PreBuffer)) > FAKE_REASONING_INITIAL_BUFFER_SIZE)
       /\ (IsThinkFeed /\ tp.parser.state = "PRE_CONTENT" /\ OpeningTag(PreBuffer) # <<>>) =>
            tp'.parser.thinking_block_found]_vars

(* C32, amended: in PRE_CONTENT the parser moves to STREAMING and flushes its
   buffer exactly when the left-trimmed buffer is not a prefix of an open tag,
   whatever its length; a buffer of whitespace or of whitespace and the
   beginning of an open tag goes on buffering, also beyond
   FAKE_REASONING_INITIAL_BUFFER_SIZE; a buffer that starts with an open tag
   enters the block. *)
C32_GivesUpWhenNoPrefix ==
    [][/\ IsPreFeed =>
            PreFeedGivesUp(
                \A i \in DOMAIN FAKE_REASONING_OPEN_TAGS :
                    ~StartsWith(FAKE_REASONING_OPEN_TAGS[i], lstrip(PreBuffer)))
       /\ (IsThinkFeed /\ tp.parser.state = "PRE_CONTENT" /\ OpeningTag(PreBuffer) # <<>>) =>
            tp'.parser.thinking_block_found
       /\ (tp'.pc = "feeding" /\ tp'.input \in LongInputs /\ Head(tp'.input) = " "
           /\ tp'.pos = FAKE_REASONING_INITIAL_BUFFER_SIZE + 3) =>
            /\ tp'.parser.state = "PRE_CONTENT"
            /\ tp'.parser.initial_buffer = SubSeq(tp'.input, 1, tp'.pos)]_vars

\* " a" was flushed as regular content, two characters long, before the
\* open tag that follows it.
C32_Witness ==
    /\ tp.pc = "feeding"
    /\ tp.input = <<" ", "a", "<", "t", ">">>
    /\ tp.pos = 2
    /\ tp.parser.state = "STREAMING"
    /\ tp.parser.initial_buffer = <<>>
    /\ tp.regular = <<" ", "a">>

\* The text between the opening tag of the text and its close tag
BlockText(text) ==
    SubSeq(text, OpenEnd(text) + 1, CloseEnd(text) - Len(CloseTagOf(OpeningTag(text))))

(* C33: for a stream that is an open tag, a text T, the matching close tag
   and a rest, cut into pieces in any way, the thinking content returned so
   far is always the beginning of T and is T once the stream has been fed; the
   last-thinking-chunk flag is raised once, by the feed that brings the end of
   the close tag, and never by finalize. *)
C33_ThinkingIsBlockText ==
    [][(OpeningTag(tp'.input) # <<>> /\ CloseEnd(tp'.input) # 0) =>
          /\ StartsWith(BlockText(tp'.input), tp'.thinking)
          /\ tp.closedAt # 0 => tp'.closedAt = tp.closedAt
          /\ tp'.closedAt # 0 =>
                /\ tp'.closedFrom < CloseEnd(tp'.input) /\ CloseEnd(tp'.input) <= tp'.closedAt
                /\ tp'.thinking = BlockText(tp'.input)
          /\ tp'.pos >= CloseEnd(tp'.input) =>
                tp'.closedAt # 0 /\ tp'.parser.state = "STREAMING"
          /\ tp'.pc = "finalized" =>
                tp'.thinking = BlockText(tp'.input) /\ tp'.closedAt # 0]_vars

\* "<t>aaaaaaaa</t> a" with the close tag cut after its first character: the
\* buffer "aaaaaaaa<" was longer than max_tag_length, so a part of the text was
\* returned before the close tag was found.
C33_Witness ==
    /\ tp.pc = "finalized"
    /\ tp.input = <<"<", "t", ">">> \o Repeat("a", max_tag_length + 2)
                  \o <<"<", "/", "t", ">", " ", "a">>
    /\ tp.closedFrom = 3 + max_tag_length + 2 + 1
    /\ tp.thinking = Repeat("a", max_tag_length + 2)
    /\ tp.regular = <<" ", "a">>

(***************************************************************************)
(*              deduplicate_tool_calls applied to its output               *)
(***************************************************************************)

\* The longest list of tool calls of the model.
MaxCalls == 3

\* Tool calls without id (None) and with one of two ids, with one of two
\* names, with arguments "{}" and two longer ones.
DedupCalls ==
    {[present |-> TRUE, id |-> id, name |-> StrValue(name), arguments |-> arguments] :
        id \in {None, StrValue(<<"1">>), StrValue(<<"2">>)},
        name \in {<<"f">>, <<"g">>},
        arguments \in {<<"{", "}">>, <<"{", "a", "}">>, <<"{", "a", "b", "}">>}}

RECURSIVE CallsOfLength(_)
CallsOfLength(n) ==
    IF n = 0 THEN {<<>>}
    ELSE {Append(l, tc) : l \in CallsOfLength(n - 1), tc \in DedupCalls}

DedupInit ==
    \E l \in UNION {CallsOfLength(n) : n \in 0..MaxCalls} :
        dd = [DdOff EXCEPT !.pc = "given", !.tool_calls = l]

\* unique = deduplicate_tool_calls(tool_calls)
DedupOnce ==
    /\ dd.pc = "given"
    /\ dd' = [dd EXCEPT !.pc = "once", !.once = deduplicate_tool_calls(dd.tool_calls)]
    /\ UNCHANGED notDedup

\* deduplicate_tool_calls(unique)
DedupTwice ==
    /\ dd.pc = "once"
    /\ dd' = [dd EXCEPT !.pc = "twice", !.twice = deduplicate_tool_calls(dd.once)]
    /\ UNCHANGED notDedup

DedupNext == DedupOnce \/ DedupTwice

InitDedup ==
    DedupInit /\ AuthOff /\ HttpOff /\ StreamOff /\ ConvOff /\ ParserOff /\ ThinkingOff /\ RouteOff /\ CredsOff /\ CacheOff /\ UsageOff

SpecDedup == InitDedup /\ [][DedupNext]_vars

(* C18: deduplicate_tool_calls applied to its own result returns that result,
   the same tool calls in the same order. *)
C18_Idempotent == dd.pc = "twice" => dd.twice = dd.once

\* Three calls, the first two with the same id and the third without id and
\* with the name and arguments of the second: the first pass keeps one call,
\* the one with the longer arguments.
C18_Witness ==
    /\ dd.pc = "twice"
    /\ Len(dd.tool_calls) = 3 /\ Len(dd.once) = 1
    /\ dd.tool_calls[1].id = dd.tool_calls[2].id /\ Truthy(dd.tool_calls[1].id)
    /\ ~Truthy(dd.tool_calls[3].id)
    /\ dd.once[1] = dd.tool_calls[2]
    /\ dd.twice = dd.once

(***************************************************************************)
(*      KiroAuthManager._process_refresh_response and the credentials      *)
(*      file  (auth.py)                                                    *)
(*                                                                         *)
(* A token, a refresh token and a profile ARN are strings; "none" is None  *)
(* (also a key that the response lacks, for data.get) and "" the empty     *)
(* string.  In the file "absent" is a key that is not there.               *)
(***************************************************************************)

\* The refreshes of one manager in the model.
MaxRefreshes == 2

\* bool(x) of an Optional[str]
IsSet(x) == x \notin {"none", ""}

\* _save_credentials_to_file(access_token, refresh_token, profile_arn): the
\* file it leaves.  The keys it does not write keep what the file had.
save_credentials_to_file(m, file, access_token, refresh_token, profile_arn) ==
    IF ~m.credsFile THEN file
    ELSE [file EXCEPT
            !.exists = TRUE,
            !.accessToken = IF access_token # "none" THEN access_token ELSE m.accessToken,
            !.refreshToken = IF refresh_token # "none" THEN refresh_token ELSE m.refreshToken,
            !.expiresAt = IF m.expiresAt # NoExpiry THEN m.expiresAt ELSE @,
            !.profileArn = IF profile_arn # "none" THEN profile_arn
                           ELSE IF IsSet(m.profileArn) THEN m.profileArn
                           ELSE @]

\* A manager that writes the file before it looks for the accessToken
process_refresh_response_saves_first(m, file, data, t) ==
    [m |-> m,
     file |-> save_credentials_to_file(m, file, data.accessToken, data.refreshToken,
                                       data.profileArn),
     raised |-> IF IsSet(data.accessToken) THEN "none" ELSE "ValueError"]

\* _process_refresh_response(data) at time t: the manager and the file it
\* leaves, and what it raises.  The file is written before the fields are
\* assigned.
process_refresh_response(m, file, data, t) ==
    LET expires_in == IF data.expiresIn = -1 THEN DefaultExpiresIn ELSE data.expiresIn
        new_expires_at == t + expires_in - SafetyShave
    IN IF ~IsSet(data.accessToken)
       THEN [m |-> m, file |-> file, raised |-> "ValueError"]
       ELSE [m |-> [m EXCEPT !.accessToken = data.accessToken,
                             !.refreshToken = IF IsSet(data.refreshToken)
                                              THEN data.refreshToken ELSE @,
                             !.profileArn = IF IsSet(data.profileArn)
                                            THEN data.profileArn ELSE @,
                             !.expiresAt = new_expires_at],
             file |-> save_credentials_to_file(m, file, data.accessToken,
                                               data.refreshToken, data.profileArn),
             raised |-> "none"]

\* The bodies of the 200 responses of the auth endpoint in the model
RefreshResponses ==
    [accessToken : {"none", "", "A1", "A2"}, refreshToken : {"none", "R1"},
     expiresIn : {-1, TokenRefreshThreshold + SafetyShave}, profileArn : {"none", "P1"}]

\* A manager made from the environment or from its credentials file, which
\* then holds what the manager holds.
CredsInit ==
    \E access \in {"none", "A0"}, arn \in {"none", "P0"},
       expires \in {NoExpiry, TokenRefreshThreshold}, credsFile, exists \in BOOLEAN :
        /\ exists => credsFile
        /\ cr = [CrOff EXCEPT
                    !.pc = "ready",
                    !.m = Manager(access, "R0", expires, arn, credsFile),
                    !.file = IF exists
                             THEN [exists |-> TRUE, accessToken |-> access,
                                   refreshToken |-> "R0", expiresAt |-> expires,
                                   profileArn |-> arn, region |-> "eu"]
                             ELSE NoFile]

\* _execute_refresh_request returned the body of a 200 response, d seconds
\* after the request: _process_refresh_response(data).
ProcessRefreshResponse(data, d) ==
    /\ cr.pc = "ready"
    /\ cr.n < MaxRefreshes
    /\ \E r \in {process_refresh_response(cr.m, cr.file, data, cr.now + d)} :
         cr' = [cr EXCEPT !.m = r.m, !.file = r.file, !.raised = r.raised,
                          !.data = data, !.now = @ + d, !.n = @ + 1]
    /\ UNCHANGED notCreds

CredsNext == \E data \in RefreshResponses, d \in HttpDurations : ProcessRefreshResponse(data, d)

InitCreds ==
    CredsInit /\ AuthOff /\ HttpOff /\ StreamOff /\ ConvOff /\ ParserOff /\ ThinkingOff
    /\ RouteOff /\ DedupOff /\ CacheOff /\ UsageOff

SpecCreds == InitCreds /\ [][CredsNext]_vars

(* C34: a refresh response without accessToken makes the refresh fail with an
   error and leaves the manager's accessToken, refreshToken, profileArn and
   expiresAt and the credentials file as they were. *)
C34_NoTokenNoChange ==
    [][~IsSet(cr'.data.accessToken) =>
          /\ cr'.raised = "ValueError"
          /\ cr'.m = cr.m
          /\ cr'.file = cr.file]_vars

\* The second response of a manager with a credentials file had no
\* accessToken: the manager and the file hold what the first one left.
C34_Witness ==
    /\ cr.n = 2 /\ cr.raised = "ValueError"
    /\ cr.data.accessToken = "none" /\ cr.data.refreshToken = "R1" /\ cr.data.profileArn = "P1"
    /\ cr.m.credsFile /\ cr.file.exists
    /\ cr.m.accessToken = "A1" /\ cr.file.accessToken = "A1"
    /\ cr.m.refreshToken = "R0" /\ cr.file.refreshToken = "R0"

(* C37: after a successful refresh of a manager with a credentials file, the
   accessToken, refreshToken and expiresAt of the file are those of the
   manager, the expiresAt being now + expiresIn - 60 of this refresh. *)
C37_FileFollowsManager ==
    [][(cr'.raised = "none" /\ cr'.m.credsFile /\ cr'.n > cr.n) =>
          /\ cr'.file.exists
          /\ cr'.file.accessToken = cr'.m.accessToken
          /\ cr'.file.refreshToken = cr'.m.refreshToken
          /\ cr'.m.expiresAt = cr'.now - SafetyShave
                                + (IF cr'.data.expiresIn = -1 THEN DefaultExpiresIn
                                   ELSE cr'.data.expiresIn)
          /\ cr'.file.expiresAt = cr'.m.expiresAt]_vars


(***************************************************************************)
(*          ModelInfoCache: the background refresh task  (cache.py)        *)
(*                                                                         *)
(* start_background_refresh and stop_background_refresh are called from    *)
(* any number of coroutines of one event loop; every task that             *)
(* start_background_refresh creates is kept, so that tasks the cache no    *)
(* longer refers to are still seen.  A task is "new" until the loop runs   *)
(* it for the first time, then sleeps and refreshes in turns, and is       *)
(* "done" when its coroutine has ended.  must_cancel is the cancellation   *)
(* request of Task.cancel(): the task's next step raises CancelledError.   *)
(***************************************************************************)
NStoppers == 2
MaxTasks == 2
MaxBgCalls == 4
MaxRounds == 2

Stoppers == 1..NStoppers

NewTask == [state |-> "new", must_cancel |-> FALSE, rounds |-> 0, failed |-> FALSE]

\* The tasks whose coroutine has not ended
Running(b) == {i \in 1..Len(b.tasks) : b.tasks[i].state # "done"}

\* A start that never sees a running task
AlreadyRunningNever(b) == FALSE

\* `self._refresh_task and not self._refresh_task.done()` in start_background_refresh
AlreadyRunning(b) == b.refresh_task # 0 /\ b.tasks[b.refresh_task].state # "done"

\* The same test in stop_background_refresh
StopNeeded(b) == b.refresh_task # 0 /\ b.tasks[b.refresh_task].state # "done"

CacheInit ==
    bg = [pc |-> "on", tasks |-> <<>>, refresh_task |-> 0,
          stop |-> [s \in Stoppers |-> "idle"], on |-> [s \in Stoppers |-> 0],
          calls |-> 0, last |-> "none"]

\* start_background_refresh: no await between the test and create_task
StartBackgroundRefresh ==
    /\ bg.pc = "on"
    /\ bg.calls < MaxBgCalls
    /\ IF AlreadyRunning(bg)
       THEN bg' = [bg EXCEPT !.calls = @ + 1, !.last = "start_noop"]
       ELSE /\ Len(bg.tasks) < MaxTasks
            /\ bg' = [bg EXCEPT !.tasks = Append(@, NewTask),
                                !.refresh_task = Len(bg.tasks) + 1,
                                !.calls = @ + 1, !.last = "start"]
    /\ UNCHANGED notCache

\* stop_background_refresh up to `await self._refresh_task`, or the whole of
\* it when there is nothing to stop
StopBackgroundRefresh(s) ==
    /\ bg.pc = "on"
    /\ bg.stop[s] = "idle"
    /\ bg.calls < MaxBgCalls
    /\ IF StopNeeded(bg)
       THEN bg' = [bg EXCEPT !.tasks[bg.refresh_task].must_cancel = TRUE,
                             !.stop[s] = "await", !.on[s] = bg.refresh_task,
                             !.calls = @ + 1, !.last = "stop_cancel"]
       ELSE bg' = [bg EXCEPT !.calls = @ + 1, !.last = "stop_noop"]
    /\ UNCHANGED notCache

\* `await self._refresh_task` ends when the task has ended, with its result
\* or with CancelledError, and stop_background_refresh returns
StopReturn(s) ==
    /\ bg.pc = "on"
    /\ bg.stop[s] = "await"
    /\ bg.tasks[bg.on[s]].state = "done"
    /\ bg' = [bg EXCEPT !.stop[s] = "idle", !.last = "stop_return"]
    /\ UNCHANGED notCache

\* The event loop runs a new task: _background_refresh_loop up to its first
\* sleep, or nothing of it when the task was cancelled before
TaskRun(i) ==
    /\ bg.pc = "on"
    /\ i \in 1..Len(bg.tasks)
    /\ bg.tasks[i].state = "new"
    /\ bg' = [bg EXCEPT !.tasks[i].state = IF bg.tasks[i].must_cancel THEN "done" ELSE "sleep",
                        !.last = IF bg.tasks[i].must_cancel THEN "cancelled" ELSE "run"]
    /\ UNCHANGED notCache

\* The sleep ends and the loop calls refresh()
TaskWake(i) ==
    /\ bg.pc = "on"
    /\ i \in 1..Len(bg.tasks)
    /\ bg.tasks[i].state = "sleep"
    /\ ~bg.tasks[i].must_cancel
    /\ bg.tasks[i].rounds < MaxRounds
    /\ bg' = [bg EXCEPT !.tasks[i].state = "refresh", !.last = "wake"]
    /\ UNCHANGED notCache

\* refresh() returns True, or returns False after an HTTP error or an
\* exception it caught; the loop goes back to the sleep
TaskRefreshed(i, ok) ==
    /\ bg.pc = "on"
    /\ i \in 1..Len(bg.tasks)
    /\ bg.tasks[i].state = "refresh"
    /\ ~bg.tasks[i].must_cancel
    /\ bg' = [bg EXCEPT !.tasks[i].state = "sleep",
                        !.tasks[i].rounds = @ + 1,
                        !.tasks[i].failed = @ \/ ~ok,
                        !.last = IF ok THEN "refreshed" ELSE "refresh_failed"]
    /\ UNCHANGED notCache

\* CancelledError is raised at the await the task is in; refresh() does not
\* catch it, the loop does and breaks
TaskCancelled(i) ==
    /\ bg.pc = "on"
    /\ i \in 1..Len(bg.tasks)
    /\ bg.tasks[i].state \in {"sleep", "refresh"}
    /\ bg.tasks[i].must_cancel
    /\ bg' = [bg EXCEPT !.tasks[i].state = "done", !.last = "cancelled"]
    /\ UNCHANGED notCache

CacheNext ==
    \/ StartBackgroundRefresh
    \/ \E s \in Stoppers : StopBackgroundRefresh(s)
    \/ \E s \in Stoppers : StopReturn(s)
    \/ \E i \in 1..MaxTasks : TaskRun(i)
    \/ \E i \in 1..MaxTasks : TaskWake(i)
    \/ \E i \in 1..MaxTasks, ok \in BOOLEAN : TaskRefreshed(i, ok)
    \/ \E i \in 1..MaxTasks : TaskCancelled(i)

InitCache ==
    CacheInit /\ AuthOff /\ HttpOff /\ StreamOff /\ ConvOff /\ ParserOff /\ ThinkingOff
    /\ RouteOff /\ DedupOff /\ CredsOff /\ UsageOff

SpecCache == InitCache /\ [][CacheNext]_vars

(* C36: whatever start_background_refresh and stop_background_refresh calls
   are made, at most one refresh task is running; a stop call that waits
   returns only when the task it cancelled has ended; a stop call made when
   no task is running changes nothing and returns at once; a task ends only
   when it was cancelled, and after a failed refresh it is still running. *)
C36_OneTask ==
    /\ [](Cardinality(Running(bg)) <= 1)
    /\ [][/\ \A s \in Stoppers :
               (bg.stop[s] = "await" /\ bg'.stop[s] = "idle")
               => bg.tasks[bg.on[s]].state = "done" /\ Running(bg') \subseteq {bg'.refresh_task}
          /\ (bg'.calls = bg.calls + 1 /\ bg'.last \in {"stop_noop", "stop_cancel"}
              /\ Running(bg) = {})
             => bg'.tasks = bg.tasks /\ bg'.stop = bg.stop /\ bg'.refresh_task = bg.refresh_task
          /\ \A i \in 1..Len(bg.tasks) :
               (bg.tasks[i].state # "done" /\ bg'.tasks[i].state = "done")
               => bg.tasks[i].must_cancel
          /\ \A i \in 1..Len(bg.tasks) :
               (bg.tasks[i].state = "refresh" /\ bg'.tasks[i].state # "refresh"
                /\ bg'.last = "refresh_failed")
               => bg'.tasks[i].state = "sleep" /\ i \in Running(bg')]_vars

\* The first task was stopped, a second was started and is running after a
\* failed refresh, and one more start has found it running.
C36_Witness ==
    /\ Len(bg.tasks) = 2
    /\ bg.tasks[1].state = "done"
    /\ bg.tasks[2].state = "sleep" /\ bg.tasks[2].failed
    /\ bg.last = "start_noop"
    /\ \A s \in Stoppers : bg.stop[s] = "idle"


(***************************************************************************)
(*                _calculate_usage_tokens  (streaming.py)                  *)
(*                                                                         *)
(* Both emitters copy prompt_tokens, completion_tokens and total_tokens    *)
(* from the block this function returns.  Token counts are what            *)
(* count_tokens, count_message_tokens and count_tools_tokens return:       *)
(* naturals.  contextUsagePercentage is a number of percent; here it is    *)
(* counted in units of 1/10000 percent, so that int() has something to     *)
(* cut off.                                                                *)
(***************************************************************************)
MaxTokens == 3
MaxPercentage == 20

\* settings.default_max_input_tokens
DefaultMaxInputTokens == 200000

\* percentage units in one: 100 percent of 10000 units each
PercentageScale == 1000000

\* `int((context_usage_percentage / 100) * max_input_tokens)`
TotalTokensFromApi(pct, max_input_tokens) ==
    IF pct.seen /\ pct.value > 0
    THEN (pct.value * max_input_tokens) \div PercentageScale
    ELSE 0

\* The percentage path with the subtraction left as it comes out
calculate_usage_tokens_unclamped(completion_tokens, pct, max_input_tokens, message_tokens, tools_tokens) ==
    IF TotalTokensFromApi(pct, max_input_tokens) > 0
    THEN [prompt_tokens |-> TotalTokensFromApi(pct, max_input_tokens) - completion_tokens,
          completion_tokens |-> completion_tokens,
          total_tokens |-> TotalTokensFromApi(pct, max_input_tokens),
          total_source |-> "API Kiro"]
    ELSE [prompt_tokens |-> message_tokens + tools_tokens,
          completion_tokens |-> completion_tokens,
          total_tokens |-> message_tokens + tools_tokens + completion_tokens,
          total_source |-> "tiktoken"]

\* _calculate_usage_tokens
calculate_usage_tokens(completion_tokens, pct, max_input_tokens, message_tokens, tools_tokens) ==
    IF TotalTokensFromApi(pct, max_input_tokens) > 0
    THEN [prompt_tokens |->
              IF TotalTokensFromApi(pct, max_input_tokens) - completion_tokens > 0
              THEN TotalTokensFromApi(pct, max_input_tokens) - completion_tokens
              ELSE 0,
          completion_tokens |-> completion_tokens,
          total_tokens |-> TotalTokensFromApi(pct, max_input_tokens),
          total_source |-> "API Kiro"]
    ELSE [prompt_tokens |-> message_tokens + tools_tokens,
          completion_tokens |-> completion_tokens,
          total_tokens |-> message_tokens + tools_tokens + completion_tokens,
          total_source |-> "tiktoken"]

\* What the emitter has at the end of the body: the content's token count,
\* the last contextUsagePercentage event or none, the request's token counts
UsageInit ==
    \E c \in 0..MaxTokens, m \in 0..MaxTokens, t \in 0..1,
       pct \in {[seen |-> FALSE, value |-> 0]}
               \cup {[seen |-> TRUE, value |-> v] : v \in 0..MaxPercentage} :
        us = [UsOff EXCEPT !.pc = "given", !.completion_tokens = c,
                           !.context_usage_percentage = pct,
                           !.message_tokens = m, !.tools_tokens = t]

UsageCalculate ==
    /\ us.pc = "given"
    /\ us' = [us EXCEPT !.pc = "done",
                        !.usage = calculate_usage_tokens(us.completion_tokens,
                                      us.context_usage_percentage, DefaultMaxInputTokens,
                                      us.message_tokens, us.tools_tokens)]
    /\ UNCHANGED notUsage

UsageNext == UsageCalculate

InitUsage ==
    UsageInit /\ AuthOff /\ HttpOff /\ StreamOff /\ ConvOff /\ ParserOff /\ ThinkingOff
    /\ RouteOff /\ DedupOff /\ CredsOff /\ CacheOff

SpecUsage == InitUsage /\ [][UsageNext]_vars

NonNegative(u) == u.prompt_tokens >= 0 /\ u.completion_tokens >= 0 /\ u.total_tokens >= 0

(* C40 as stated: in every usage block total_tokens is prompt_tokens +
   completion_tokens, the three are non-negative, and the percentage path
   is taken whenever a contextUsagePercentage greater than 0 was seen. *)
C40_TotalIsSum ==
    us.pc = "done" =>
        /\ us.usage.total_tokens = us.usage.prompt_tokens + us.usage.completion_tokens
        /\ NonNegative(us.usage)
        /\ (us.context_usage_percentage.seen /\ us.context_usage_percentage.value > 0)
           => us.usage.total_source = "API Kiro"

(* C40 amended: the three numbers are non-negative; the percentage path is
   taken exactly when the percentage is greater than 0 and gives at least
   one whole token; on the fallback path total_tokens is the sum, on the
   percentage path it is the sum exactly when completion_tokens does not
   exceed it, and otherwise prompt_tokens is 0 and total_tokens is less
   than completion_tokens. *)
C40_TotalIsSumUnlessClamped ==
    us.pc = "done" =>
        LET u == us.usage
            api == TotalTokensFromApi(us.context_usage_percentage, DefaultMaxInputTokens)
        IN /\ NonNegative(u)
           /\ u.completion_tokens = us.completion_tokens
           /\ u.total_source = "API Kiro" <=> api > 0
           /\ u.total_source = "tiktoken" <=> api = 0
           /\ u.total_source = "tiktoken"
              => u.total_tokens = u.prompt_tokens + u.completion_tokens
           /\ u.total_source = "API Kiro"
              => /\ u.total_tokens = api
                 /\ u.completion_tokens <= api
                    => u.total_tokens = u.prompt_tokens + u.completion_tokens
                 /\ u.completion_tokens > api
                    => u.prompt_tokens = 0 /\ u.total_tokens < u.completion_tokens

\* A percentage that gives 2 tokens with a content of 3 tokens: the block
\* says prompt 0, completion 3, total 2.
C40_Witness ==
    /\ us.pc = "done"
    /\ us.context_usage_percentage = [seen |-> TRUE, value |-> 10]
    /\ us.usage = [prompt_tokens |-> 0, completion_tokens |-> 3, total_tokens |-> 2,
                   total_source |-> "API Kiro"]

====
